---- MODULE Spec2Model ----
(***************************************************************************)
(* The guardrails engine of flying-stick (backend/src/guardrails):         *)
(* GuardrailEngine.check_input / check_behavioral / check_output, the rule *)
(* evaluator, GuardrailContext and GuardrailSummary, as a state machine.   *)
(*                                                                         *)
(* Python values are modelled with reference semantics: a dict is an       *)
(* address into `heap`, so that copy.deepcopy, in-place assignment through *)
(* _set_nested and the sharing of a configured fallback_value are what the *)
(* code makes them.  Strings are sequences of one-character strings.       *)
(***************************************************************************)
EXTENDS Integers, Sequences, FiniteSets, TLC

\* Bounds of the exploration.
MaxToolCalls == 2
MaxIterations == 2
MaxResults == 2

(***************************************************************************)
(* Values                                                                  *)
(***************************************************************************)
Keys == {"text", "a", "b"}

\* A value: None, a str (s: its characters), an int (n), a list of strs (l),
\* a dict (a: its address in the heap), a GuardrailContext (a: its request);
\* Absent marks a key a dict does not hold.
Absent == [t |-> "absent", s |-> <<>>, n |-> 0, l |-> <<>>, a |-> "-"]
NoneV == [t |-> "none", s |-> <<>>, n |-> 0, l |-> <<>>, a |-> "-"]
StrV(s) == [t |-> "str", s |-> s, n |-> 0, l |-> <<>>, a |-> "-"]
IntV(n) == [t |-> "int", s |-> <<>>, n |-> n, l |-> <<>>, a |-> "-"]
ListV(l) == [t |-> "list", s |-> <<>>, n |-> 0, l |-> l, a |-> "-"]
DictV(a) == [t |-> "dict", s |-> <<>>, n |-> 0, l |-> <<>>, a |-> a]
CtxV(r) == [t |-> "ctx", s |-> <<>>, n |-> 0, l |-> <<>>, a |-> r]

\* The characters of a dict key.
KeyStr(k) ==
    CASE k = "text" -> <<"t", "e", "x", "t">> [] k = "a" -> <<"a">> [] OTHER -> <<"b">>

EmptyDict == [k \in Keys |-> Absent]

\* The object graph below a value, as an immutable tree: two values are
\* deep-equal (Python ==) iff their trees are equal.
RECURSIVE Tree(_, _)
Tree(h, v) ==
    IF v.t = "dict"
    THEN [t |-> "dict", s |-> <<>>, n |-> 0, l |-> <<>>,
          f |-> [k \in Keys |-> Tree(h, h[v.a][k])]]
    ELSE [t |-> v.t, s |-> v.s, n |-> v.n, l |-> v.l, f |-> <<>>]

\* dict.get(part): a missing key reads as None.
DictGet(h, v, part) ==
    IF part \in Keys /\ h[v.a][part].t # "absent" THEN h[v.a][part] ELSE NoneV

\* `part in current` for a dict.
DictHas(h, v, part) == part \in Keys /\ h[v.a][part].t # "absent"

\* Python slicing s[:n]: a negative n counts from the end.
SliceTo(s, n) ==
    IF n >= 0
    THEN SubSeq(s, 1, IF n < Len(s) THEN n ELSE Len(s))
    ELSE SubSeq(s, 1, IF Len(s) + n > 0 THEN Len(s) + n ELSE 0)

\* Number of decimal digits of str(n) for the small integers of the model.
IntStrLen(n) ==
    LET m == IF n < 0 THEN 0 - n ELSE n
        d == IF m < 10 THEN 1 ELSE IF m < 100 THEN 2 ELSE IF m < 1000 THEN 3
             ELSE IF m < 10000 THEN 4 ELSE 5
    IN  IF n < 0 THEN d + 1 ELSE d

RECURSIVE SumLen(_, _)
SumLen(s, i) == IF i > Len(s) THEN 0 ELSE Len(s[i]) + SumLen(s, i + 1)

\* len(repr(v)) and len(str(v)).
RECURSIVE ReprLen(_, _)
StrLen(h, v) == IF v.t = "str" THEN Len(v.s) ELSE ReprLen(h, v)

RECURSIVE DictReprLen(_, _, _)
DictReprLen(h, v, ks) ==
    IF ks = {} THEN 0
    ELSE LET k == CHOOSE x \in ks : TRUE
             rest == DictReprLen(h, v, ks \ {k})
         IN  IF h[v.a][k].t = "absent" THEN rest
             ELSE Len(KeyStr(k)) + 4 + ReprLen(h, h[v.a][k]) + 2 + rest

ReprLen(h, v) ==
    CASE v.t = "str" -> Len(v.s) + 2
      [] v.t = "int" -> IntStrLen(v.n)
      [] v.t = "none" -> 4
      [] v.t = "list" ->
            IF Len(v.l) = 0 THEN 2
            ELSE 2 + SumLen(v.l, 1) + 2 * Len(v.l) + 2 * (Len(v.l) - 1)
      [] v.t = "dict" ->
            LET body == DictReprLen(h, v, Keys)
            IN  IF body = 0 THEN 2 ELSE body
      [] OTHER -> 100

(***************************************************************************)
(* Rules (rules.py).  A rule text is held as what the two regular          *)
(* expressions of evaluate_rule and _parse_literal make of it: its form,   *)
(* the function name or operator, and its tokens in text order, each a     *)
(* literal or a dotted path.                                               *)
(***************************************************************************)
Lit(v) == [k |-> "lit", v |-> v, p |-> <<>>]
Path(p) == [k |-> "path", v |-> NoneV, p |-> p]

Call(fn, args) == [form |-> "call", fn |-> fn, op |-> "", args |-> args]
Cmp(left, op, right) == [form |-> "cmp", fn |-> "", op |-> op, args |-> <<left, right>>]
NoParse == [form |-> "none", fn |-> "", op |-> "", args |-> <<>>]

\* The outcome of an evaluation: a boolean, or the exception raised with its
\* text (the text of the rule and of a TypeError are left out of msg).
Ok(b) == [kind |-> "ok", val |-> b, msg |-> ""]
ParseErr == [kind |-> "parse", val |-> FALSE, msg |-> "Cannot parse rule"]
UnknownFn(fn) == [kind |-> "parse", val |-> FALSE, msg |-> "Unknown rule function: " \o fn]
CallErr(fn) == [kind |-> "parse", val |-> FALSE, msg |-> "Error calling " \o fn]
EvalErr == [kind |-> "eval", val |-> FALSE, msg |-> ""]
\* A TypeError raised inside a predicate, before _evaluate_function wraps it.
TypeErr == [kind |-> "type", val |-> FALSE, msg |-> ""]

\* The attributes of a GuardrailContext that paths of the model read.
CtxAttrs == {"tool_call_count", "iteration_count", "tool_calls", "request"}

CtxAttr(cs, r, part) ==
    CASE part = "tool_call_count" -> IntV(cs[r].tool_call_count)
      [] part = "iteration_count" -> IntV(cs[r].iteration_count)
      [] part = "tool_calls" -> ListV(cs[r].tool_calls)
      [] OTHER -> cs[r].request

\* A resolver that also indexes lists by a numeric segment.
RECURSIVE GetNestedFrom_indexing(_, _, _, _, _)
GetNestedFrom_indexing(h, cs, cur, path, i) ==
    IF i > Len(path) THEN cur
    ELSE IF cur.t = "dict"
         THEN GetNestedFrom_indexing(h, cs, DictGet(h, cur, path[i]), path, i + 1)
    ELSE IF cur.t = "ctx" /\ path[i] \in CtxAttrs
         THEN GetNestedFrom_indexing(h, cs, CtxAttr(cs, cur.a, path[i]), path, i + 1)
    ELSE IF cur.t = "list" /\ path[i] \in {"0", "1"}
              /\ (IF path[i] = "0" THEN 1 ELSE 2) <= Len(cur.l)
         THEN GetNestedFrom_indexing(h, cs, StrV(cur.l[IF path[i] = "0" THEN 1 ELSE 2]),
                                     path, i + 1)
    ELSE NoneV

\* _get_nested_value's loop: a dict is read by key, any other object by
\* attribute; a list has no attribute named by a path segment.
RECURSIVE GetNestedFrom(_, _, _, _, _)
GetNestedFrom(h, cs, cur, path, i) ==
    IF i > Len(path) THEN cur
    ELSE IF cur.t = "dict" THEN GetNestedFrom(h, cs, DictGet(h, cur, path[i]), path, i + 1)
    ELSE IF cur.t = "ctx" /\ path[i] \in CtxAttrs
         THEN GetNestedFrom(h, cs, CtxAttr(cs, cur.a, path[i]), path, i + 1)
    ELSE NoneV

\* _get_nested_value(context, path): the first segment is a key of the
\* resolution context {"request", "output", "context"}.
get_nested_value(h, cs, rc, path) ==
    LET root == IF path[1] \in DOMAIN rc /\ rc[path[1]].t # "absent"
                THEN rc[path[1]] ELSE NoneV
    IN  GetNestedFrom(h, cs, root, path, 2)

resolve_value(h, cs, rc, tok) ==
    IF tok.k = "path" THEN get_nested_value(h, cs, rc, tok.p) ELSE tok.v

\* Lexicographic order on strings; characters are ordered by code point.
CharRank(c) ==
    CASE c = "." -> 0 [] c = "a" -> 1 [] c = "b" -> 2 [] c = "c" -> 3 [] c = "d" -> 4
      [] c = "e" -> 5 [] c = "f" -> 6 [] OTHER -> 7

RECURSIVE SeqLess(_, _, _)
SeqLess(x, y, i) ==
    IF i > Len(y) THEN FALSE
    ELSE IF i > Len(x) THEN TRUE
    ELSE IF x[i] = y[i] THEN SeqLess(x, y, i + 1)
    ELSE CharRank(x[i]) < CharRank(y[i])

\* l < r for two values; a TypeError for operands Python does not order.
Less(l, r) ==
    IF l.t = "int" /\ r.t = "int" THEN Ok(l.n < r.n)
    ELSE IF l.t = "str" /\ r.t = "str" THEN Ok(SeqLess(l.s, r.s, 1))
    ELSE TypeErr

Contains(h, l, r) ==
    CASE r.t = "list" -> Ok(l.t = "str" /\ \E j \in 1..Len(r.l) : r.l[j] = l.s)
      [] r.t = "str" ->
            IF l.t # "str" THEN TypeErr
            ELSE Ok(\E i \in 0..Len(r.s) :
                       i + Len(l.s) <= Len(r.s) /\ SubSeq(r.s, i + 1, i + Len(l.s)) = l.s)
      [] r.t = "dict" ->
            IF l.t \in {"dict", "list"} THEN TypeErr
            ELSE Ok(l.t = "str" /\ \E k \in Keys : h[r.a][k].t # "absent" /\ l.s = KeyStr(k))
      [] OTHER -> TypeErr

\* ---- built-in predicates ------------------------------------------------
\* A max_length that measures strings only.
max_length_strings(h, value, limit) ==
    IF value.t = "none" THEN Ok(TRUE)
    ELSE IF limit.t # "int" THEN TypeErr
    ELSE Ok(value.t = "str" /\ Len(value.s) <= limit.n)

max_length(h, value, limit) ==
    IF value.t = "none" THEN Ok(TRUE)
    ELSE IF limit.t # "int" THEN TypeErr
    ELSE Ok(StrLen(h, value) <= limit.n)

required(h, value) ==
    IF value.t = "none" THEN Ok(FALSE)
    ELSE IF value.t = "str" /\ Len(value.s) = 0 THEN Ok(FALSE)
    ELSE IF value.t = "list" /\ Len(value.l) = 0 THEN Ok(FALSE)
    ELSE IF value.t = "dict" /\ h[value.a] = EmptyDict THEN Ok(FALSE)
    ELSE Ok(TRUE)

max_tool_calls_strict(cs, context, limit) ==
    IF context.t # "ctx" THEN EvalErr
    ELSE IF limit.t # "int" THEN TypeErr
    ELSE Ok(cs[context.a].tool_call_count < limit.n)

max_tool_calls(cs, context, limit) ==
    IF context.t # "ctx" THEN EvalErr
    ELSE IF limit.t # "int" THEN TypeErr
    ELSE Ok(cs[context.a].tool_call_count <= limit.n)

max_iterations(cs, context, limit) ==
    IF context.t # "ctx" THEN EvalErr
    ELSE IF limit.t # "int" THEN TypeErr
    ELSE Ok(cs[context.a].iteration_count <= limit.n)

\* An allow-list check of the latest tool call only.
allowed_tools_latest(h, cs, context, allowed) ==
    IF context.t # "ctx" THEN EvalErr
    ELSE IF cs[context.a].tool_calls = <<>> THEN Ok(TRUE)
    ELSE LET latest == Contains(h, StrV(cs[context.a].tool_calls[Len(cs[context.a].tool_calls)]),
                                allowed)
         IN  IF latest.kind # "ok" THEN TypeErr ELSE latest

allowed_tools(h, cs, context, allowed) ==
    IF context.t # "ctx" THEN EvalErr
    ELSE IF cs[context.a].tool_calls = <<>> THEN Ok(TRUE)
    ELSE LET each == [i \in 1..Len(cs[context.a].tool_calls) |->
                         Contains(h, StrV(cs[context.a].tool_calls[i]), allowed)]
         IN  IF \E i \in DOMAIN each : each[i].kind # "ok" THEN TypeErr
             ELSE Ok(\A i \in DOMAIN each : each[i].val)

\* The rule registry: name -> number of parameters.
Registry == {"max_length", "required", "max_tool_calls", "max_iterations", "allowed_tools"}
Arity(fn) == IF fn = "required" THEN 1 ELSE 2

evaluate_function_unwrapped(h, cs, rc, fn, toks) ==
    IF fn \notin Registry THEN UnknownFn(fn)
    ELSE LET args == [i \in 1..Len(toks) |-> resolve_value(h, cs, rc, toks[i])]
             r == IF Len(args) # Arity(fn) THEN TypeErr
                  ELSE CASE fn = "max_length" -> max_length(h, args[1], args[2])
                         [] fn = "required" -> required(h, args[1])
                         [] fn = "max_tool_calls" -> max_tool_calls(cs, args[1], args[2])
                         [] fn = "max_iterations" -> max_iterations(cs, args[1], args[2])
                         [] OTHER -> allowed_tools(h, cs, args[1], args[2])
         IN  IF r.kind = "type" THEN EvalErr ELSE r

\* _evaluate_function: an unknown name and a TypeError of the call (a wrong
\* number of arguments, or one raised inside the predicate) are RuleParseErrors.
evaluate_function(h, cs, rc, fn, toks) ==
    IF fn \notin Registry THEN UnknownFn(fn)
    ELSE LET args == [i \in 1..Len(toks) |-> resolve_value(h, cs, rc, toks[i])]
             r == IF Len(args) # Arity(fn) THEN TypeErr
                  ELSE CASE fn = "max_length" -> max_length(h, args[1], args[2])
                         [] fn = "required" -> required(h, args[1])
                         [] fn = "max_tool_calls" -> max_tool_calls(cs, args[1], args[2])
                         [] fn = "max_iterations" -> max_iterations(cs, args[1], args[2])
                         [] OTHER -> allowed_tools(h, cs, args[1], args[2])
         IN  IF r.kind = "type" THEN CallErr(fn) ELSE r

Negate(o) == IF o.kind = "ok" THEN Ok(~o.val) ELSE o

\* A TypeError of a comparison is not wrapped: it leaves evaluate_rule as it is.
Unwrapped(o) == IF o.kind = "type" THEN EvalErr ELSE o

\* A comparison that applies every operator to the resolved values as they are.
evaluate_comparison_unguarded(h, cs, rc, left, op, right) ==
    LET l == resolve_value(h, cs, rc, left)
        r == resolve_value(h, cs, rc, right)
        eq == Tree(h, l) = Tree(h, r)
    IN  CASE op = "==" -> Ok(eq)
          [] op = "!=" -> Ok(~eq)
          [] op = "<" -> Unwrapped(Less(l, r))
          [] op = ">" -> Unwrapped(Less(r, l))
          [] op = ">=" -> Unwrapped(Negate(Less(l, r)))
          [] op = "<=" -> Unwrapped(Negate(Less(r, l)))
          [] op = "in" -> Unwrapped(Contains(h, l, r))
          [] op = "not_in" -> Unwrapped(Negate(Contains(h, l, r)))
          [] OTHER -> ParseErr

\* _evaluate_comparison
evaluate_comparison(h, cs, rc, left, op, right) ==
    LET l == resolve_value(h, cs, rc, left)
        r == resolve_value(h, cs, rc, right)
        eq == Tree(h, l) = Tree(h, r)
    IN  CASE op = "==" -> Ok(eq)
          [] op = "!=" -> Ok(~eq)
          [] op \in {">", "<", ">=", "<="} ->
                IF l.t = "none" \/ r.t = "none" THEN Ok(FALSE)
                ELSE CASE op = "<" -> Unwrapped(Less(l, r))
                       [] op = ">" -> Unwrapped(Less(r, l))
                       [] op = ">=" -> Unwrapped(Negate(Less(l, r)))
                       [] OTHER -> Unwrapped(Negate(Less(r, l)))
          [] op = "in" -> IF r.t = "none" THEN Ok(FALSE) ELSE Unwrapped(Contains(h, l, r))
          [] op = "not_in" ->
                IF r.t = "none" THEN Ok(TRUE) ELSE Unwrapped(Negate(Contains(h, l, r)))
          [] OTHER -> ParseErr

\* evaluate_rule: the function-call form first, then the comparison form,
\* else RuleParseError.
evaluate_rule(h, cs, rc, rule) ==
    CASE rule.form = "call" -> evaluate_function(h, cs, rc, rule.fn, rule.args)
      [] rule.form = "cmp" ->
            evaluate_comparison(h, cs, rc, rule.args[1], rule.op, rule.args[2])
      [] OTHER -> ParseErr

(***************************************************************************)
(* Data model (models.py)                                                  *)
(***************************************************************************)
VALID_STAGES == {"input", "behavioral", "output"}
VALID_RESPONSES == {"block", "fallback", "truncate", "flag"}

\* GuardrailConfig; error_message "" and truncate_to NoneV stand for None.
GuardrailConfig(name, stage, rule, response, enabled, fallback_value, truncate_to, suffix) ==
    [name |-> name, stage |-> stage, rule |-> rule, response |-> response,
     enabled |-> enabled, error_message |-> "", fallback_value |-> fallback_value,
     truncate_to |-> truncate_to, suffix |-> suffix]

\* GuardrailConfig.__post_init__: the configurations the constructor accepts.
post_init(g) ==
    /\ g.stage \in VALID_STAGES
    /\ g.response \in VALID_RESPONSES
    /\ ~(g.response = "truncate" /\ g.truncate_to.t = "none")

NoDetails ==
    [original_length |-> Absent, truncated_to |-> Absent, original_value |-> Absent,
     fallback_value |-> Absent, tool_call_count |-> Absent, iteration_count |-> Absent]

\* GuardrailResult; response "none" and message "" stand for None.  `by` is
\* history: the request whose call produced the result.
GuardrailResult(name, stage, triggered, response, message) ==
    [name |-> name, stage |-> stage, triggered |-> triggered, response |-> response,
     message |-> message, details |-> NoDetails, by |-> "-"]

record_tool_call_uncounted(c, tool_name) ==
    [c EXCEPT !.tool_calls = Append(@, tool_name)]

\* A recording that counts the call and forgets its name.
record_tool_call_unnamed(c, tool_name) ==
    [c EXCEPT !.tool_call_count = @ + 1]

\* GuardrailContext.record_tool_call
record_tool_call(c, tool_name) ==
    [c EXCEPT !.tool_call_count = @ + 1, !.tool_calls = Append(@, tool_name)]

\* GuardrailContext.increment_iteration
increment_iteration(c) == [c EXCEPT !.iteration_count = @ + 1]

NewSummary ==
    [input |-> <<>>, behavioral |-> <<>>, output |-> <<>>,
     blocked |-> FALSE, stage_blocked |-> "none", blocked_by |-> "-"]

add_result_unplaced(sm, result) ==
    IF result.triggered /\ result.response = "block"
    THEN [sm EXCEPT !.blocked = TRUE, !.stage_blocked = result.stage, !.blocked_by = result.by]
    ELSE IF result.stage \in VALID_STAGES
    THEN [sm EXCEPT ![result.stage] = Append(@, result)]
    ELSE sm

\* GuardrailSummary.add_result; blocked_by is history.
add_result(sm, result) ==
    LET placed == IF result.stage \in VALID_STAGES
                  THEN [sm EXCEPT ![result.stage] = Append(@, result)]
                  ELSE sm
    IN  IF result.triggered /\ result.response = "block"
        THEN [placed EXCEPT !.blocked = TRUE, !.stage_blocked = result.stage,
                            !.blocked_by = result.by]
        ELSE placed

RECURSIVE add_results(_, _, _)
add_results(sm, results, i) ==
    IF i > Len(results) THEN sm ELSE add_results(add_result(sm, results[i]), results, i + 1)

(***************************************************************************)
(* The heap                                                                *)
(***************************************************************************)
\* The caller's output object, the engine's working copy of it, dicts made
\* by _set_nested, the configured fallback values, the requests' payloads.
CallerAddrs == {"c0", "c1"}
CopyAddrs == {"w0", "w1"}
NewAddrs == <<"n1", "n2", "n3", "n4">>
FallbackAddrs == {"f1", "f2"}
RequestAddrs == {"q1", "q2"}
Addrs == CallerAddrs \cup CopyAddrs \cup {NewAddrs[i] : i \in DOMAIN NewAddrs}
            \cup FallbackAddrs \cup RequestAddrs

RECURSIVE Reach(_, _)
Reach(h, S) ==
    LET step == S \cup UNION {{h[x][k].a : k \in {kk \in Keys : h[x][kk].t = "dict"}} : x \in S}
    IN  IF step = S THEN S ELSE Reach(h, step)

\* Objects no reference reaches any more are collected: everything outside
\* the requests' payloads and what the configuration holds.
Collect(h) ==
    LET live == Reach(h, FallbackAddrs \cup RequestAddrs)
    IN  [x \in Addrs |-> IF x \in live THEN h[x] ELSE EmptyDict]

\* The addresses a new dict can take, in order.
FreeAddrs(h) ==
    LET live == Reach(h, FallbackAddrs)
    IN  SelectSeq(NewAddrs, LAMBDA x : x \notin live)

CopyOf(x) == IF x = "c0" THEN "w0" ELSE IF x = "c1" THEN "w1" ELSE x

\* copy.deepcopy(output): the copies of the dicts of the caller's object ...
deepcopy_heap(h) ==
    [x \in Addrs |->
        IF x \in CopyAddrs
        THEN LET src == IF x = "w0" THEN "c0" ELSE "c1"
             IN  [k \in Keys |-> IF h[src][k].t = "dict"
                                 THEN DictV(CopyOf(h[src][k].a)) ELSE h[src][k]]
        ELSE h[x]]

deepcopy_alias(v) == v

\* ... and the reference deepcopy returns.
deepcopy(v) == IF v.t = "dict" THEN DictV(CopyOf(v.a)) ELSE v

(***************************************************************************)
(* The engine (engine.py)                                                  *)
(***************************************************************************)
get_guardrails_fallthrough(cfg, agent, stage) ==
    IF agent \in DOMAIN cfg /\ cfg[agent][stage] # <<>> THEN cfg[agent][stage]
    ELSE IF "default" \in DOMAIN cfg THEN cfg["default"][stage]
    ELSE <<>>

\* GuardrailEngine._get_guardrails
get_guardrails(cfg, agent, stage) ==
    IF agent \in DOMAIN cfg THEN cfg[agent][stage]
    ELSE IF "default" \in DOMAIN cfg THEN cfg["default"][stage]
    ELSE <<>>

evaluate_guardrail_trips(h, cs, rc, g, fo) ==
    LET o == evaluate_rule(h, cs, rc, g.rule)
        hit == o.kind # "ok" \/ ~o.val
    IN  IF o.kind = "ok" \/ fo
        THEN [raise |-> "none",
              result |-> GuardrailResult(g.name, g.stage, hit,
                                         IF hit THEN g.response ELSE "none",
                                         IF hit THEN g.error_message ELSE "")]
        ELSE [raise |-> o.kind,
              result |-> GuardrailResult(g.name, g.stage, FALSE, "none", "")]

evaluate_guardrail_lenient(h, cs, rc, g, fo) ==
    LET o == evaluate_rule(h, cs, rc, g.rule)
    IN  IF o.kind = "ok"
        THEN [raise |-> "none",
              result |-> GuardrailResult(g.name, g.stage, ~o.val,
                                         IF ~o.val THEN g.response ELSE "none",
                                         IF ~o.val THEN g.error_message ELSE "")]
        ELSE [raise |-> "none",
              result |-> GuardrailResult(g.name, g.stage, FALSE, "none",
                                         IF o.kind = "parse"
                                         THEN "Rule parse error: " \o o.msg
                                         ELSE "Evaluation error")]

\* GuardrailEngine._evaluate_guardrail: the result, or the error it re-raises
\* (raise: "none", "parse" for RuleParseError, "eval" for any other).
evaluate_guardrail(h, cs, rc, g, fo) ==
    LET o == evaluate_rule(h, cs, rc, g.rule)
    IN  IF o.kind = "ok"
        THEN [raise |-> "none",
              result |-> GuardrailResult(g.name, g.stage, ~o.val,
                                         IF ~o.val THEN g.response ELSE "none",
                                         IF ~o.val THEN g.error_message ELSE "")]
        ELSE IF fo
        THEN [raise |-> "none",
              result |-> GuardrailResult(g.name, g.stage, FALSE, "none",
                                         IF o.kind = "parse"
                                         THEN "Rule parse error: " \o o.msg
                                         ELSE "Evaluation error")]
        ELSE [raise |-> o.kind,
              result |-> GuardrailResult(g.name, g.stage, FALSE, "none", "")]

Skipped_never(g) == FALSE

\* `if not g.enabled: continue`
Skipped(g) == ~g.enabled

Blocks_never(result) == FALSE

Blocks_any(result) == result.triggered

\* `if result.triggered and result.response == "block"`
Blocks(result) == result.triggered /\ result.response = "block"

\* GuardrailEngine._extract_field_from_rule(rule, "output."): the path after
\* the first "output." of the rule text, <<>> when there is none.
RECURSIVE FieldInPath(_, _)
FieldInPath(p, i) ==
    IF i >= Len(p) THEN <<>>
    ELSE IF p[i] = "output" THEN SubSeq(p, i + 1, Len(p))
    ELSE FieldInPath(p, i + 1)

RECURSIVE FieldInTokens(_, _)
FieldInTokens(toks, i) ==
    IF i > Len(toks) THEN <<>>
    ELSE IF toks[i].k = "path" /\ FieldInPath(toks[i].p, 1) # <<>>
         THEN FieldInPath(toks[i].p, 1)
    ELSE FieldInTokens(toks, i + 1)

extract_field_from_rule(rule) == FieldInTokens(rule.args, 1)

\* GuardrailEngine._get_nested
RECURSIVE get_nested_from(_, _, _, _)
get_nested_from(h, cur, path, i) ==
    IF i > Len(path) THEN cur
    ELSE IF cur.t = "dict" THEN get_nested_from(h, DictGet(h, cur, path[i]), path, i + 1)
    ELSE NoneV

get_nested(h, obj, path) == get_nested_from(h, obj, path, 1)

\* GuardrailEngine._set_nested: the heap it leaves, and whether it raised
\* (TypeError: `in`, indexing or item assignment on a value that is no dict).
RECURSIVE set_nested_from(_, _, _, _, _, _)
set_nested_from(h, cur, path, i, value, free) ==
    IF cur.t # "dict" THEN [h |-> h, raised |-> TRUE]
    ELSE IF i = Len(path)
    THEN [h |-> [h EXCEPT ![cur.a][path[i]] = value], raised |-> FALSE]
    ELSE IF ~DictHas(h, cur, path[i])
    THEN LET x == Head(free)
             h1 == [h EXCEPT ![cur.a][path[i]] = DictV(x), ![x] = EmptyDict]
         IN  set_nested_from(h1, DictV(x), path, i + 1, value, Tail(free))
    ELSE set_nested_from(h, h[cur.a][path[i]], path, i + 1, value, free)

set_nested(h, obj, path, value) == set_nested_from(h, obj, path, 1, value, FreeAddrs(h))

\* GuardrailEngine._apply_truncate: the heap and output it leaves, the
\* details it adds to the result, whether it raised.
apply_truncate(h, output, g, details) ==
    LET field_path == extract_field_from_rule(g.rule)
        same == [h |-> h, out |-> output, details |-> details, raised |-> FALSE]
    IN  IF g.truncate_to.t = "none" THEN same
        ELSE IF field_path # <<>> /\ output.t = "dict"
        THEN LET original_value == get_nested(h, output, field_path)
             IN  IF original_value.t = "str"
                 THEN LET truncated == SliceTo(original_value.s, g.truncate_to.n) \o g.suffix
                          w == set_nested(h, output, field_path, StrV(truncated))
                      IN  [h |-> w.h, out |-> output, raised |-> w.raised,
                           details |->
                               IF w.raised
                               THEN [details EXCEPT
                                       !.original_length = IntV(Len(original_value.s))]
                               ELSE [details EXCEPT
                                       !.original_length = IntV(Len(original_value.s)),
                                       !.truncated_to = g.truncate_to]]
                 ELSE same
        ELSE IF output.t = "str"
        THEN [h |-> h, raised |-> FALSE,
              out |-> StrV(SliceTo(output.s, g.truncate_to.n) \o g.suffix),
              details |-> [details EXCEPT !.original_length = IntV(Len(output.s)),
                                          !.truncated_to = g.truncate_to]]
        ELSE same

\* GuardrailEngine._apply_fallback
apply_fallback(h, output, g, details) ==
    LET field_path == extract_field_from_rule(g.rule)
    IN  IF field_path # <<>> /\ output.t = "dict"
        THEN LET original_value == get_nested(h, output, field_path)
                 w == set_nested(h, output, field_path, g.fallback_value)
             IN  [h |-> w.h, out |-> output, raised |-> w.raised,
                  details |-> [details EXCEPT !.original_value = original_value,
                                              !.fallback_value = g.fallback_value]]
        ELSE [h |-> h, out |-> g.fallback_value, raised |-> FALSE,
              details |-> [details EXCEPT !.original_value = output,
                                          !.fallback_value = g.fallback_value]]

\* The state of one pass over a guardrail list: the heap, the output being
\* worked on, the results so far, how the pass ended (status "ok", "block",
\* "parse" or "eval" for an error re-raised by _evaluate_guardrail, "crash"
\* for an exception raised while a remediation is applied) and, as history,
\* one step per guardrail evaluated.
NoErr == [guardrail_name |-> "", stage |-> "", message |-> ""]

StartPass(h, out) ==
    [h |-> h, out |-> out, results |-> <<>>, steps |-> <<>>, status |-> "ok", err |-> NoErr]

BlockError(g, stage) ==
    [guardrail_name |-> g.name, stage |-> stage,
     message |-> IF g.error_message # "" THEN g.error_message
                 ELSE "Blocked by guardrail: " \o g.name]

to_http_status_server(e) == IF e.stage = "input" THEN 400 ELSE 500

\* GuardrailBlockError.to_http_status
to_http_status(e) == IF e.stage \in {"input", "behavioral"} THEN 400 ELSE 500

\* GuardrailBlockError.to_response; the body is the object json.dumps writes
\* (its details are left out).
to_response(e) ==
    [statusCode |-> to_http_status(e),
     body |-> [error |-> e.message, guardrail |-> e.guardrail_name, stage |-> e.stage]]

NoResponse == [statusCode |-> 0, body |-> [error |-> "", guardrail |-> "", stage |-> ""]]

Step(g, o, h0, out0, h1, out1) ==
    [name |-> g.name, raw |-> o, before |-> Tree(h0, out0), after |-> Tree(h1, out1)]

\* check_input, lines 156-173
RECURSIVE input_pass(_, _, _, _, _, _, _)
input_pass(cs, request, by, gs, i, fo, st) ==
    IF i > Len(gs) \/ st.status # "ok" THEN st
    ELSE IF Skipped(gs[i]) THEN input_pass(cs, request, by, gs, i + 1, fo, st)
    ELSE LET rc == [request |-> request]
             e == evaluate_guardrail(st.h, cs, rc, gs[i], fo)
             step == Step(gs[i], evaluate_rule(st.h, cs, rc, gs[i].rule),
                          st.h, st.out, st.h, st.out)
             result == [e.result EXCEPT !.by = by]
         IN  IF e.raise # "none"
             THEN [st EXCEPT !.status = e.raise, !.steps = Append(@, step)]
             ELSE input_pass(cs, request, by, gs, i + 1, fo,
                    [st EXCEPT !.results = Append(@, result),
                               !.steps = Append(@, step),
                               !.status = IF Blocks(result) THEN "block" ELSE "ok",
                               !.err = IF Blocks(result) THEN BlockError(gs[i], "input")
                                       ELSE @])

\* check_behavioral, lines 202-231 (elapsed_ms, a wall-clock reading, is
\* left out of the details)
RECURSIVE behavioral_pass(_, _, _, _, _, _)
behavioral_pass(cs, by, gs, i, fo, st) ==
    IF i > Len(gs) \/ st.status # "ok" THEN st
    ELSE IF Skipped(gs[i]) THEN behavioral_pass(cs, by, gs, i + 1, fo, st)
    ELSE LET rc == [context |-> CtxV(by), request |-> cs[by].request]
             e == evaluate_guardrail(st.h, cs, rc, gs[i], fo)
             step == Step(gs[i], evaluate_rule(st.h, cs, rc, gs[i].rule),
                          st.h, st.out, st.h, st.out)
             result == [e.result EXCEPT
                          !.by = by,
                          !.details = [NoDetails EXCEPT
                              !.tool_call_count = IntV(cs[by].tool_call_count),
                              !.iteration_count = IntV(cs[by].iteration_count)]]
         IN  IF e.raise # "none"
             THEN [st EXCEPT !.status = e.raise, !.steps = Append(@, step)]
             ELSE behavioral_pass(cs, by, gs, i + 1, fo,
                    [st EXCEPT !.results = Append(@, result),
                               !.steps = Append(@, step),
                               !.status = IF Blocks(result) THEN "block" ELSE "ok",
                               !.err = IF Blocks(result) THEN BlockError(gs[i], "behavioral")
                                       ELSE @])

remediate_flag(h, output, g, result) ==
    LET same == [h |-> h, out |-> output, details |-> result.details, raised |-> FALSE]
    IN  IF ~result.triggered THEN same
        ELSE CASE result.response = "truncate" -> apply_truncate(h, output, g, result.details)
               [] result.response \in {"fallback", "flag"} ->
                     apply_fallback(h, output, g, result.details)
               [] OTHER -> same

\* check_output, lines 273-290: what a triggered result does to the output.
remediate(h, output, g, result) ==
    LET same == [h |-> h, out |-> output, details |-> result.details, raised |-> FALSE]
    IN  IF ~result.triggered THEN same
        ELSE CASE result.response = "truncate" -> apply_truncate(h, output, g, result.details)
               [] result.response = "fallback" -> apply_fallback(h, output, g, result.details)
               [] OTHER -> same

RECURSIVE output_pass_original(_, _, _, _, _, _, _)
output_pass_original(cs, request, by, gs, i, fo, st) ==
    IF i > Len(gs) \/ st.status # "ok" THEN st
    ELSE IF Skipped(gs[i]) THEN output_pass_original(cs, request, by, gs, i + 1, fo, st)
    ELSE LET rc == [request |-> request,
                    output |-> IF st.out.t = "dict" THEN DictV("c0") ELSE st.out]
             e == evaluate_guardrail(st.h, cs, rc, gs[i], fo)
             raw == evaluate_rule(st.h, cs, rc, gs[i].rule)
             result == [e.result EXCEPT !.by = by]
             m == remediate(st.h, st.out, gs[i], result)
         IN  IF e.raise # "none"
             THEN [st EXCEPT !.status = e.raise,
                             !.steps = Append(@, Step(gs[i], raw, st.h, st.out, st.h, st.out))]
             ELSE IF Blocks(result)
             THEN [st EXCEPT !.results = Append(@, result),
                             !.steps = Append(@, Step(gs[i], raw, st.h, st.out, st.h, st.out)),
                             !.status = "block",
                             !.err = BlockError(gs[i], "output")]
             ELSE output_pass_original(cs, request, by, gs, i + 1, fo,
                    [st EXCEPT !.h = m.h,
                               !.out = m.out,
                               !.results = Append(@, [result EXCEPT !.details = m.details]),
                               !.steps = Append(@, Step(gs[i], raw, st.h, st.out, m.h, m.out)),
                               !.status = IF m.raised THEN "crash" ELSE "ok"])

\* check_output, lines 261-294
RECURSIVE output_pass(_, _, _, _, _, _, _)
output_pass(cs, request, by, gs, i, fo, st) ==
    IF i > Len(gs) \/ st.status # "ok" THEN st
    ELSE IF Skipped(gs[i]) THEN output_pass(cs, request, by, gs, i + 1, fo, st)
    ELSE LET rc == [request |-> request, output |-> st.out]
             e == evaluate_guardrail(st.h, cs, rc, gs[i], fo)
             raw == evaluate_rule(st.h, cs, rc, gs[i].rule)
             result == [e.result EXCEPT !.by = by]
             m == remediate(st.h, st.out, gs[i], result)
         IN  IF e.raise # "none"
             THEN [st EXCEPT !.status = e.raise,
                             !.steps = Append(@, Step(gs[i], raw, st.h, st.out, st.h, st.out))]
             ELSE IF Blocks(result)
             THEN [st EXCEPT !.results = Append(@, result),
                             !.steps = Append(@, Step(gs[i], raw, st.h, st.out, st.h, st.out)),
                             !.status = "block",
                             !.err = BlockError(gs[i], "output")]
             ELSE output_pass(cs, request, by, gs, i + 1, fo,
                    [st EXCEPT !.h = m.h,
                               !.out = m.out,
                               !.results = Append(@, [result EXCEPT !.details = m.details]),
                               !.steps = Append(@, Step(gs[i], raw, st.h, st.out, m.h, m.out)),
                               !.status = IF m.raised THEN "crash" ELSE "ok"])

\* The details of a result as the values they refer to when the call ends.
Freeze(h, results) ==
    [i \in 1..Len(results) |->
        [results[i] EXCEPT !.details = [d \in DOMAIN NoDetails |-> Tree(h, results[i].details[d])]]]

(***************************************************************************)
(* Configurations, requests and outputs explored                           *)
(***************************************************************************)
S5 == <<"a", "b", "c", "d", "e">>
S2 == <<"a", "b">>
Dots == <<".", ".", ".">>
T1 == <<"t", "1">>
T2 == <<"t", "2">>
ToolNames == {T1, T2}

\* The requests in flight: each has its agent and its payload.
Reqs == {"r1", "r2"}
AgentOf(r) == IF r = "r3" THEN "router" ELSE "classifier"
PayloadOf(r) == IF r = "r1" THEN DictV("q1") ELSE DictV("q2")

\* Rule texts, by stage.
InputRules ==
    [len |-> Call("max_length", <<Path(<<"request", "text">>), Lit(IntV(3))>>),
     req |-> Call("required", <<Path(<<"request", "a">>)>>),
     bad |-> NoParse,
     cmp |-> Cmp(Path(<<"request", "text">>), ">", Lit(IntV(3))),
     unk |-> Call("no_such", <<Path(<<"request", "text">>)>>),
     argc |-> Call("required", <<Path(<<"request", "text">>), Lit(IntV(3))>>),
     argt |-> Call("max_length", <<Path(<<"request", "text">>), Lit(StrV(<<"x">>))>>)]

BehavioralRules ==
    [tc0 |-> Call("max_tool_calls", <<Path(<<"context">>), Lit(IntV(0))>>),
     tc1 |-> Call("max_tool_calls", <<Path(<<"context">>), Lit(IntV(1))>>),
     it1 |-> Call("max_iterations", <<Path(<<"context">>), Lit(IntV(1))>>),
     al |-> Call("allowed_tools", <<Path(<<"context">>), Lit(ListV(<<T1>>))>>),
     bad |-> NoParse,
     attr |-> Call("max_tool_calls", <<Path(<<"request">>), Lit(IntV(1))>>),
     it0 |-> Call("max_iterations", <<Path(<<"context">>), Lit(IntV(0))>>)]

OutputRules ==
    [len |-> Call("max_length", <<Path(<<"output", "text">>), Lit(IntV(3))>>),
     lenab |-> Call("max_length", <<Path(<<"output", "a", "b">>), Lit(IntV(3))>>),
     reqab |-> Call("required", <<Path(<<"output", "a", "b">>)>>),
     root |-> Call("max_length", <<Path(<<"output">>), Lit(IntV(3))>>),
     bad |-> NoParse,
     cmp |-> Cmp(Path(<<"output", "text">>), ">", Lit(IntV(3))),
     reqa |-> Call("required", <<Path(<<"output", "a">>)>>),
     lena |-> Call("max_length", <<Path(<<"output", "a">>), Lit(IntV(3))>>),
     idx0 |-> Cmp(Path(<<"output", "a", "0">>), "==", Lit(StrV(S2))),
     idx1 |-> Cmp(Path(<<"output", "a", "1">>), "==", Lit(NoneV)),
     gt |-> Cmp(Path(<<"output", "a">>), ">", Lit(IntV(3))),
     lt |-> Cmp(Lit(IntV(3)), "<", Path(<<"output", "a">>)),
     ge |-> Cmp(Path(<<"output", "a">>), ">=", Lit(IntV(3))),
     le |-> Cmp(Path(<<"output", "text">>), "<=", Path(<<"output", "a">>)),
     isin |-> Cmp(Path(<<"output", "text">>), "in", Path(<<"output", "a">>)),
     notin |-> Cmp(Path(<<"output", "text">>), "not_in", Path(<<"output", "a">>)),
     eq |-> Cmp(Path(<<"output", "a">>), "==", Lit(NoneV)),
     ne |-> Cmp(Path(<<"output", "a">>), "!=", Lit(NoneV))]

RulesOf(stage) ==
    CASE stage = "input" -> InputRules
      [] stage = "behavioral" -> BehavioralRules
      [] OTHER -> OutputRules

\* What a guardrail does when it triggers: a response with its parameters.
Remedies ==
    {"block", "flag", "truncate", "truncate_neg", "truncate_wide", "truncate_none",
     "fallback", "fallback_dict"}

\* The i-th guardrail of a stage's list, from a rule key and an action.
Guardrail(stage, i, rule, action, enabled) ==
    GuardrailConfig(
        IF i = 1 THEN "g1" ELSE "g2", stage, RulesOf(stage)[rule],
        CASE action \in {"truncate", "truncate_neg", "truncate_wide", "truncate_none"} ->
                "truncate"
          [] action \in {"fallback", "fallback_dict"} -> "fallback"
          [] OTHER -> action,
        enabled,
        CASE action = "fallback" -> StrV(<<"f">>)
          [] action = "fallback_dict" -> DictV(IF i = 1 THEN "f1" ELSE "f2")
          [] OTHER -> NoneV,
        CASE action = "truncate" -> IntV(2)
          [] action = "truncate_neg" -> IntV(-1)
          [] action = "truncate_wide" -> IntV(5)
          [] OTHER -> NoneV,
        Dots)

\* The lists of a stage: every single guardrail, and the pairs over `rules`
\* and `actions`.
Singles(stage, rules, actions) ==
    {<<Guardrail(stage, 1, r, a, TRUE)>> : r \in rules, a \in actions}

Pairs(stage, rules, actions) ==
    {<<Guardrail(stage, 1, x[1], x[2], TRUE), Guardrail(stage, 2, y[1], y[2], TRUE)>> :
        x \in rules \X actions, y \in rules \X actions}

\* Lists with a disabled guardrail in first or second place.
Disabled(stage, rules, actions) ==
    {<<Guardrail(stage, 1, x[1], x[2], e), Guardrail(stage, 2, y[1], y[2], ~e)>> :
        x \in rules \X actions, y \in rules \X actions, e \in BOOLEAN}

OutputLists ==
    Singles("output", {"len", "lenab", "reqab", "root", "bad", "cmp"}, Remedies)
    \cup Pairs("output", {"len", "reqab", "bad"}, {"block", "flag", "truncate", "fallback_dict"})
    \cup Disabled("output", {"len", "bad"}, {"block", "fallback"})
    \cup {<<Guardrail("output", 1, "reqa", "fallback_dict", TRUE),
            Guardrail("output", 2, "lenab", a, TRUE)>> : a \in {"truncate", "fallback"}}

InputLists ==
    Singles("input", {"len", "req", "bad", "cmp", "unk", "argc", "argt"},
            {"block", "flag", "truncate", "fallback"})
    \cup Pairs("input", {"len", "bad", "cmp"}, {"block", "flag", "truncate", "fallback"})
    \cup Disabled("input", {"len", "bad"}, {"block", "flag"})

BehavioralLists ==
    Singles("behavioral", {"tc0", "tc1", "it1", "al", "bad", "attr"}, {"block", "flag"})
    \cup Pairs("behavioral", {"tc1", "bad"}, {"block", "flag"})
    \cup Disabled("behavioral", {"tc1"}, {"block", "flag"})

Stages(i, b, o) == [input |-> i, behavioral |-> b, output |-> o]

\* load_guardrails builds GuardrailConfig objects, so every list holds only
\* configurations __post_init__ accepts.
Accepted(cfg) ==
    \A ag \in DOMAIN cfg : \A st \in VALID_STAGES :
        \A i \in 1..Len(cfg[ag][st]) : post_init(cfg[ag][st][i])

OutputConfigs == {[classifier |-> Stages(<<>>, <<>>, o)] : o \in OutputLists}
InputConfigs == {[classifier |-> Stages(i, <<>>, <<>>)] : i \in InputLists}
BehavioralConfigs == {[classifier |-> Stages(<<>>, b, <<>>)] : b \in BehavioralLists}
\* Configurations with guardrails in all three stages: in each stage the
\* same shape of list, over a rule that reads a limit, a rule text that does
\* not parse and a rule whose evaluation raises.
RuleOfKind(stage, kind) ==
    CASE kind = "limit" -> IF stage = "behavioral" THEN "tc1" ELSE "len"
      [] kind = "raises" -> IF stage = "behavioral" THEN "attr" ELSE "cmp"
      [] OTHER -> "bad"

Shapes == {"limit", "raises", "bad"} \X {"block", "flag", "fallback"}

ShapedList(stage, shape) ==
    [i \in 1..Len(shape) |->
        Guardrail(stage, i, RuleOfKind(stage, shape[i][1]), shape[i][2], TRUE)]

\* The shapes of the first and of the second guardrail of a pair.
Firsts == {"limit", "bad"} \X {"block", "flag", "fallback"}
Seconds == {<<"limit", "block">>, <<"limit", "flag">>, <<"bad", "flag">>}

MixedConfigs ==
    {[classifier |-> Stages(ShapedList("input", sh), ShapedList("behavioral", sh),
                            ShapedList("output", sh))] :
        sh \in {<<x>> : x \in Shapes} \cup {<<x, y>> : x \in Firsts, y \in Seconds}}

\* Configurations with disabled guardrails in all three stages: a disabled
\* guardrail before or after an enabled one, and two disabled ones.
SwitchedList(stage, shape) ==
    [i \in 1..Len(shape) |->
        Guardrail(stage, i, RuleOfKind(stage, shape[i][1]), shape[i][2], shape[i][3])]

Off == {<<k, a, FALSE>> : k \in {"limit", "bad"}, a \in {"block", "fallback", "truncate"}}
On == {<<k, a, TRUE>> : k \in {"limit", "bad"}, a \in {"block", "flag", "fallback"}}

DisabledConfigs ==
    {[classifier |-> Stages(SwitchedList("input", sh), SwitchedList("behavioral", sh),
                            SwitchedList("output", sh))] :
        sh \in {<<x, y>> : x \in Off, y \in On} \cup {<<y, x>> : x \in Off, y \in On}
                \cup {<<x, y>> : x \in Off, y \in Off}}

\* Configurations over several agents: "classifier" and "default" each
\* absent, or configured with a flagging guardrail in all stages or in one
\* stage only; a request of the agent "router", which is never configured.
AgentReqs == {"r1", "r3"}

AgentLists(name) ==
    Stages(<<[Guardrail("input", 1, "len", "flag", TRUE) EXCEPT !.name = name]>>,
           <<[Guardrail("behavioral", 1, "tc0", "flag", TRUE) EXCEPT !.name = name]>>,
           <<[Guardrail("output", 1, "len", "flag", TRUE) EXCEPT !.name = name]>>)

AgentChoices(name) ==
    {AgentLists(name)}
    \cup {[s \in VALID_STAGES |-> IF s = only THEN AgentLists(name)[s] ELSE <<>>] :
             only \in VALID_STAGES}

AgentConfigs ==
    {[a \in {} |-> Stages(<<>>, <<>>, <<>>)]}
    \cup {[classifier |-> c] : c \in AgentChoices("c1")}
    \cup {[default |-> d] : d \in AgentChoices("d1")}
    \cup {[classifier |-> c, default |-> d] :
             c \in AgentChoices("c1"), d \in AgentChoices("d1")}

\* The outputs a caller passes: the root value and the dicts of its object.
Dict1(k, v) == [x \in Keys |-> IF x = k THEN v ELSE Absent]
Outputs ==
    {[root |-> DictV("c0"), c0 |-> Dict1("text", StrV(S5)), c1 |-> EmptyDict],
     [root |-> DictV("c0"), c0 |-> Dict1("text", StrV(S2)), c1 |-> EmptyDict],
     [root |-> DictV("c0"), c0 |-> Dict1("text", IntV(12345)), c1 |-> EmptyDict],
     [root |-> DictV("c0"), c0 |-> Dict1("a", StrV(S5)), c1 |-> EmptyDict],
     [root |-> DictV("c0"), c0 |-> Dict1("a", DictV("c1")), c1 |-> Dict1("b", StrV(S5))],
     [root |-> DictV("c0"), c0 |-> EmptyDict, c1 |-> EmptyDict],
     [root |-> StrV(S5), c0 |-> EmptyDict, c1 |-> EmptyDict],
     [root |-> ListV(<<S2>>), c0 |-> EmptyDict, c1 |-> EmptyDict],
     [root |-> NoneV, c0 |-> EmptyDict, c1 |-> EmptyDict]}

\* The outputs the rules are evaluated on: fields present, absent and None,
\* of every type, and roots that are not dicts.
Dict2(v, w) == [Dict1("text", v) EXCEPT !["a"] = w]
RuleOutputs ==
    {[root |-> DictV("c0"), c0 |-> d, c1 |-> EmptyDict] :
        d \in {Dict1("text", StrV(S2)), Dict1("text", StrV(S5)), Dict1("text", IntV(12)),
               Dict1("a", IntV(5)), Dict1("a", IntV(2)), Dict1("a", NoneV),
               Dict2(StrV(S2), ListV(<<S2>>)), Dict2(StrV(S2), StrV(S5)),
               Dict2(StrV(S5), ListV(<<>>)), EmptyDict}}
    \cup {[root |-> v, c0 |-> EmptyDict, c1 |-> EmptyDict] :
             v \in {ListV(<<S2>>), StrV(S2), IntV(12), NoneV}}

\* One flagging guardrail over each rule that reads the output.
RuleConfigs ==
    {[classifier |-> Stages(<<>>, <<>>, o)] :
        o \in Singles("output", {"len", "lena", "root", "reqa", "idx0", "idx1", "gt", "lt",
                                 "ge", "le", "isin", "notin", "eq", "ne"}, {"flag"})}

\* The configurations of a guarded client: per stage no guardrail or one
\* over a limit, with each response that matters in the stage.
ClientConfigs ==
    {[classifier |-> Stages(i, b, o)] :
        i \in {<<>>} \cup Singles("input", {"len"}, {"block", "flag"}),
        b \in {<<>>} \cup Singles("behavioral", {"it0"}, {"block"}),
        o \in {<<>>} \cup Singles("output", {"len"}, {"block", "flag", "truncate", "fallback"})}

\* The texts of the provider's responses.
Responses == {StrV(S5), StrV(S2)}

\* The output the agent of a request produces.
OutputOf(r) ==
    IF r = "r1" THEN [root |-> DictV("c0"), c0 |-> Dict1("text", StrV(S5)), c1 |-> EmptyDict]
    ELSE [root |-> DictV("c0"), c0 |-> Dict1("text", StrV(S2)), c1 |-> EmptyDict]

(***************************************************************************)
(* State                                                                   *)
(***************************************************************************)
VARIABLES
    config,     \* GuardrailEngine.config: agent -> stage -> list of GuardrailConfig
    fail_open,  \* GuardrailEngine.fail_open
    summary,    \* GuardrailEngine._summary
    ctxs,       \* the GuardrailContext of each request
    heap,       \* the dicts the values refer to
    last,       \* history: the latest call, what it was given and how it ended
    hist,       \* history: per context, the tool calls and iterations recorded,
                \* whether a check raised a block, the guarded bodies run
    reqs,       \* the requests in flight
    client      \* the GuardedAnthropicClient: its position in messages_create,
                \* its _context, the call's arguments, response and result

vars == <<config, fail_open, summary, ctxs, heap, last, hist, reqs, client>>

\* GuardrailEngine.create_context
create_context(agent, request) ==
    [agent |-> agent, request |-> request, tool_call_count |-> 0,
     iteration_count |-> 0, tool_calls |-> <<>>]

\* The record of a call; log is history: the results added to the summary
\* since the last reset, each with the call that produced it.
NoCall ==
    [op |-> "none", by |-> "-", tool |-> NoneV, status |-> "ok", err |-> NoErr,
     gs |-> <<>>, results |-> <<>>, steps |-> <<>>,
     argref |-> NoneV, arg |-> Tree(EmptyDict, NoneV), out |-> NoneV,
     response |-> NoResponse, log |-> <<>>,
     before |-> NewSummary, snapshot |-> NewSummary,
     seen |-> [tool_call_count |-> 0, iteration_count |-> 0, recorded |-> 0,
               entered |-> "direct"]]

\* The dicts of the fallback values a configuration holds.
FallbackDict == Dict1("b", StrV(S5))

InitHeap ==
    [x \in Addrs |->
        CASE x = "q1" -> Dict1("text", StrV(S5))
          [] x = "q2" -> Dict1("text", StrV(S2))
          [] x \in FallbackAddrs -> FallbackDict
          [] OTHER -> EmptyDict]

\* Nothing recorded on a context yet.
NoHistory == [names |-> <<>>, iters |-> 0, blocked |-> FALSE, bodies |-> 0]

\* GuardedAnthropicClient.__init__: no context, no call made; trace is
\* history: the steps of the latest messages_create, in order.
NoClient ==
    [pc |-> "idle", has_context |-> FALSE, check_input |-> TRUE, check_output |-> TRUE,
     req |-> "r1", response |-> NoneV, extracted |-> Tree(EmptyDict, NoneV),
     output |-> Tree(EmptyDict, NoneV), returned |-> NoneV, outcome |-> "none",
     trace |-> <<>>]

InitWith(configs, rs, withctx) ==
    /\ reqs = rs
    /\ config \in {c \in configs : Accepted(c)}
    /\ fail_open \in BOOLEAN
    /\ summary = NewSummary
    /\ ctxs = [r \in withctx |-> create_context(AgentOf(r), PayloadOf(r))]
    /\ heap = InitHeap
    /\ last = NoCall
    /\ hist = [r \in withctx |-> NoHistory]
    /\ client = NoClient

\* Two requests share the engine; the first runs an agent loop and has a
\* context.
Init == InitWith(MixedConfigs, Reqs, {"r1"})
InitOutput == InitWith(OutputConfigs, {"r1"}, {"r1"})
InitInput == InitWith(InputConfigs, {"r1"}, {"r1"})
InitBehavioral == InitWith(BehavioralConfigs, {"r1"}, {"r1"})
InitAgents == InitWith(AgentConfigs, AgentReqs, AgentReqs)
InitDisabled == InitWith(DisabledConfigs, {"r1"}, {"r1"})
InitRules == InitWith(RuleConfigs, {"r1"}, {"r1"})
InitClient == InitWith(ClientConfigs, Reqs, {"r1"})

ToolCap == MaxToolCalls
IterationCap == MaxIterations

SummarySize(sm) == Len(sm.input) + Len(sm.behavioral) + Len(sm.output)
Enabled(gs) == SelectSeq(gs, LAMBDA g : g.enabled)
Room(gs) == SummarySize(summary) + Len(Enabled(gs)) <= MaxResults

\* GuardrailResult.to_dict / GuardrailSummary.to_dict: response, message and
\* details are given only for a triggered result.
result_to_dict(r) ==
    IF r.triggered THEN r
    ELSE [r EXCEPT !.response = "none", !.message = "",
                   !.details = [d \in DOMAIN NoDetails |-> Tree(EmptyDict, Absent)]]

summary_to_dict(sm) ==
    [sm EXCEPT !.input = [i \in 1..Len(sm.input) |-> result_to_dict(sm.input[i])],
               !.behavioral = [i \in 1..Len(sm.behavioral) |-> result_to_dict(sm.behavioral[i])],
               !.output = [i \in 1..Len(sm.output) |-> result_to_dict(sm.output[i])]]

(***************************************************************************)
(* Operations                                                              *)
(***************************************************************************)
Finish(op, r, tool, gs, st, argref, arg, seen) ==
    \E results \in {Freeze(st.h, st.results)} :
        /\ heap' = st.h
        /\ summary' = add_results(summary, results, 1)
        /\ last' = [NoCall EXCEPT !.op = op, !.by = r, !.tool = tool, !.status = st.status,
                                  !.err = st.err, !.gs = gs,
                                  !.results = results, !.steps = st.steps,
                                  !.argref = argref, !.arg = arg, !.out = st.out,
                                  !.response = IF st.status = "block" THEN to_response(st.err)
                                               ELSE NoResponse,
                                  !.log = last.log \o [i \in 1..Len(results) |->
                                              [op |-> op, result |-> results[i]]],
                                  !.before = summary, !.seen = seen]

\* engine.check_input(agent, request)
CheckInput(r) ==
    /\ r \in reqs
    /\ \E gs \in {get_guardrails(config, AgentOf(r), "input")} :
       /\ Room(gs)
       /\ \E st \in {input_pass(ctxs, PayloadOf(r), r, gs, 1, fail_open,
                                 StartPass(Collect(heap), NoneV))} :
              /\ Finish("check_input", r, NoneV, gs, st, PayloadOf(r),
                        Tree(heap, PayloadOf(r)), NoCall.seen)
    /\ UNCHANGED <<client, reqs, config, fail_open, ctxs, hist>>

\* `if tool_name:` -- None and the empty string are not recorded.
Truthy(tool) == tool.t = "str" /\ tool.s # <<>>

\* engine.check_behavioral(ctx, tool_name); tool NoneV is a call without one.
CheckBehavioral(r, tool) ==
    /\ r \in DOMAIN ctxs
    /\ Truthy(tool) => ctxs[r].tool_call_count < ToolCap
    /\ \E cs \in {IF ~Truthy(tool) THEN ctxs
                   ELSE [ctxs EXCEPT ![r] = record_tool_call(@, tool.s)]} :
       \E gs \in {get_guardrails(config, cs[r].agent, "behavioral")} :
       /\ Room(gs)
       /\ \E st \in {behavioral_pass(cs, r, gs, 1, fail_open, StartPass(Collect(heap), NoneV))} :
              /\ ctxs' = cs
              /\ hist' = [hist EXCEPT
                             ![r].names = IF Truthy(tool) THEN Append(@, tool.s) ELSE @,
                             ![r].blocked = @ \/ st.status = "block"]
              /\ Finish("check_behavioral", r, tool, gs, st, NoneV, Tree(EmptyDict, NoneV),
                        [tool_call_count |-> cs[r].tool_call_count,
                         iteration_count |-> cs[r].iteration_count,
                         recorded |-> Len(hist[r].names) + (IF Truthy(tool) THEN 1 ELSE 0),
                         entered |-> "direct"])
    /\ UNCHANGED <<client, reqs, config, fail_open>>

\* engine.check_output(agent, request, output)
CheckOutput(r, o) ==
    /\ r \in reqs
    /\ \E gs \in {get_guardrails(config, AgentOf(r), "output")} :
       /\ Room(gs)
       /\ \E h0 \in {[Collect(heap) EXCEPT !["c0"] = o.c0, !["c1"] = o.c1]} :
          \E st \in {output_pass(ctxs, PayloadOf(r), r, gs, 1, fail_open,
                                  StartPass(deepcopy_heap(h0), deepcopy(o.root)))} :
              /\ Finish("check_output", r, NoneV, gs, st, o.root, Tree(h0, o.root), NoCall.seen)
    /\ UNCHANGED <<client, reqs, config, fail_open, ctxs, hist>>

\* ctx.record_tool_call(tool_name), called by the agent loop itself
RecordToolCall(r, name) ==
    /\ r \in DOMAIN ctxs
    /\ ctxs[r].tool_call_count < ToolCap
    /\ ctxs' = [ctxs EXCEPT ![r] = record_tool_call(@, name)]
    /\ hist' = [hist EXCEPT ![r].names = Append(@, name)]
    /\ UNCHANGED <<client, reqs, config, fail_open, summary, heap, last>>

\* ctx.increment_iteration()
IncrementIteration(r) ==
    /\ r \in DOMAIN ctxs
    /\ ctxs[r].iteration_count < IterationCap
    /\ ctxs' = [ctxs EXCEPT ![r] = increment_iteration(@)]
    /\ hist' = [hist EXCEPT ![r].iters = @ + 1]
    /\ UNCHANGED <<client, reqs, config, fail_open, summary, heap, last>>

\* A body that runs whatever the check did.
BodyRuns_always(st) == TRUE

\* `with guard.iteration():`, `with guard.tool_call(name):` and a function
\* wrapped by with_behavioral_check: an exception of the check leaves
\* __enter__ (or the wrapper) before the body is reached.
BodyRuns(st) == st.status = "ok"

\* The behavioral helpers of request r's agent loop: an optional
\* increment_iteration, then check_behavioral(context, tool), then the body.
Guarded(r, tool, increments, entered) ==
    /\ r \in DOMAIN ctxs
    /\ increments => ctxs[r].iteration_count < IterationCap
    /\ Truthy(tool) => ctxs[r].tool_call_count < ToolCap
    /\ \E c \in {IF increments THEN increment_iteration(ctxs[r]) ELSE ctxs[r]} :
       \E cs \in {[ctxs EXCEPT ![r] = IF Truthy(tool) THEN record_tool_call(c, tool.s)
                                      ELSE c]} :
       \E gs \in {get_guardrails(config, cs[r].agent, "behavioral")} :
       /\ Room(gs)
       /\ \E st \in {behavioral_pass(cs, r, gs, 1, fail_open, StartPass(Collect(heap), NoneV))} :
              /\ ctxs' = cs
              /\ hist' = [hist EXCEPT
                             ![r].names = IF Truthy(tool) THEN Append(@, tool.s) ELSE @,
                             ![r].iters = IF increments THEN @ + 1 ELSE @,
                             ![r].blocked = @ \/ st.status = "block",
                             ![r].bodies = IF BodyRuns(st) THEN @ + 1 ELSE @]
              /\ Finish("check_behavioral", r, tool, gs, st, NoneV, Tree(EmptyDict, NoneV),
                        [tool_call_count |-> cs[r].tool_call_count,
                         iteration_count |-> cs[r].iteration_count,
                         recorded |-> Len(hist[r].names) + (IF Truthy(tool) THEN 1 ELSE 0),
                         entered |-> entered])
    /\ UNCHANGED <<client, reqs, config, fail_open>>

\* IterationGuard.__enter__ and the body of the with statement
IterationEnter(r) == Guarded(r, NoneV, TRUE, "iteration")

\* ToolCallGuard.__enter__ and the body of the with statement
ToolCallEnter(r, name) == Guarded(r, StrV(name), FALSE, "tool_call")

\* the wrapper of with_behavioral_check
WrappedCall(r) == Guarded(r, NoneV, TRUE, "wrapper")

\* An exception that is swallowed: the call goes on.
after_check_swallowed(st, next) == next

\* A check_* call inside messages_create: an exception it raises leaves
\* messages_create.
after_check(st, next) == IF st.status = "ok" THEN next ELSE "idle"

\* _extract_output_data: the text of the response's first content block
\* (stop_reason, which no rule of the model reads, is left out; the texts of
\* the model are not JSON, so nothing is merged in).
extract_output_data(response) ==
    [root |-> DictV("c0"), c0 |-> Dict1("text", response), c1 |-> EmptyDict]

\* messages_create, lines 79-90: the request data (the payload of request
\* q) and the context, created on the first call and updated on later ones.
\* The client's context is the one of "r1".
MessagesCreate(q, ci, co) ==
    /\ client.pc = "idle"
    /\ q \in reqs
    /\ client.has_context => ctxs["r1"].iteration_count < IterationCap
    /\ ctxs' = [ctxs EXCEPT !["r1"] =
                    IF client.has_context
                    THEN increment_iteration([@ EXCEPT !.request = PayloadOf(q)])
                    ELSE create_context(AgentOf("r1"), PayloadOf(q))]
    /\ hist' = [hist EXCEPT !["r1"] =
                    IF client.has_context THEN [@ EXCEPT !.iters = @ + 1] ELSE NoHistory]
    /\ client' = [NoClient EXCEPT !.pc = IF ci THEN "input" ELSE "behavioral",
                                  !.has_context = TRUE, !.check_input = ci,
                                  !.check_output = co, !.req = q]
    /\ UNCHANGED <<reqs, config, fail_open, summary, heap, last>>

\* messages_create, lines 92-94
ClientInput(q) ==
    /\ client.pc = "input"
    /\ client.req = q
    /\ \E gs \in {get_guardrails(config, AgentOf("r1"), "input")} :
       /\ Room(gs)
       /\ \E st \in {input_pass(ctxs, PayloadOf(q), q, gs, 1, fail_open,
                                 StartPass(Collect(heap), NoneV))} :
              /\ Finish("check_input", q, NoneV, gs, st, PayloadOf(q),
                        Tree(heap, PayloadOf(q)), NoCall.seen)
              /\ client' = [client EXCEPT
                               !.pc = after_check(st, "behavioral"),
                               !.outcome = IF st.status = "ok" THEN @ ELSE "raised",
                               !.trace = Append(@, [ev |-> "input", status |-> st.status])]
    /\ UNCHANGED <<reqs, config, fail_open, ctxs, hist>>

\* messages_create, lines 96-97
ClientBehavioral(q) ==
    /\ client.pc = "behavioral"
    /\ client.req = q
    /\ \E gs \in {get_guardrails(config, ctxs["r1"].agent, "behavioral")} :
       /\ Room(gs)
       /\ \E st \in {behavioral_pass(ctxs, "r1", gs, 1, fail_open,
                                      StartPass(Collect(heap), NoneV))} :
              /\ hist' = [hist EXCEPT !["r1"].blocked = @ \/ st.status = "block"]
              /\ Finish("check_behavioral", "r1", NoneV, gs, st, NoneV, Tree(EmptyDict, NoneV),
                        [tool_call_count |-> ctxs["r1"].tool_call_count,
                         iteration_count |-> ctxs["r1"].iteration_count,
                         recorded |-> Len(hist["r1"].names), entered |-> "client"])
              /\ client' = [client EXCEPT
                               !.pc = after_check(st, "api"),
                               !.outcome = IF st.status = "ok" THEN @ ELSE "raised",
                               !.trace = Append(@, [ev |-> "behavioral", status |-> st.status])]
    /\ UNCHANGED <<reqs, config, fail_open, ctxs>>

\* messages_create, lines 99-100, and line 115 when check_output is false:
\* the provider answers with a response.
ClientApi(response) ==
    /\ client.pc = "api"
    /\ client' = [client EXCEPT
                     !.pc = IF client.check_output THEN "output" ELSE "idle",
                     !.response = response,
                     !.returned = IF client.check_output THEN @ ELSE response,
                     !.outcome = IF client.check_output THEN @ ELSE "returned",
                     !.trace = Append(@, [ev |-> "api", status |-> "ok"])]
    /\ UNCHANGED <<reqs, config, fail_open, summary, ctxs, heap, last, hist>>

\* messages_create, lines 102-115: the output guardrails run on the
\* extracted output, a modification is logged, the response is returned.
ClientOutput(q) ==
    /\ client.pc = "output"
    /\ client.req = q
    /\ \E o \in {extract_output_data(client.response)} :
       \E gs \in {get_guardrails(config, AgentOf("r1"), "output")} :
       /\ Room(gs)
       /\ \E h0 \in {[Collect(heap) EXCEPT !["c0"] = o.c0, !["c1"] = o.c1]} :
          \E st \in {output_pass(ctxs, PayloadOf(q), q, gs, 1, fail_open,
                                  StartPass(deepcopy_heap(h0), deepcopy(o.root)))} :
              /\ Finish("check_output", q, NoneV, gs, st, o.root, Tree(h0, o.root), NoCall.seen)
              /\ client' = [client EXCEPT
                               !.pc = "idle",
                               !.extracted = Tree(h0, o.root),
                               !.output = IF st.status = "ok" THEN Tree(st.h, st.out) ELSE @,
                               !.returned = IF st.status = "ok" THEN client.response ELSE @,
                               !.outcome = IF st.status = "ok" THEN "returned" ELSE "raised",
                               !.trace = Append(@, [ev |-> "output", status |-> st.status])]
    /\ UNCHANGED <<reqs, config, fail_open, ctxs, hist>>

\* GuardedAnthropicClient.reset
ClientReset(r) ==
    /\ client.pc = "idle"
    /\ r \in reqs
    /\ client' = NoClient
    /\ summary' = NewSummary
    /\ last' = [NoCall EXCEPT !.op = "reset", !.by = r]
    /\ heap' = Collect(heap)
    /\ UNCHANGED <<reqs, config, fail_open, ctxs, hist>>

\* engine.get_summary(), read by request r
GetSummary(r) ==
    /\ r \in reqs
    /\ last' = [NoCall EXCEPT !.op = "get_summary", !.by = r, !.log = last.log,
                              !.snapshot = summary_to_dict(summary)]
    /\ heap' = Collect(heap)
    /\ UNCHANGED <<client, reqs, config, fail_open, summary, ctxs, hist>>

\* engine.reset()
Reset(r) ==
    /\ r \in reqs
    /\ summary' = NewSummary
    /\ last' = [NoCall EXCEPT !.op = "reset", !.by = r]
    /\ heap' = Collect(heap)
    /\ UNCHANGED <<client, reqs, config, fail_open, ctxs, hist>>

Tools == {NoneV} \cup {StrV(t) : t \in ToolNames}

\* Two requests on one engine.  Each has one output, and the agent loop
\* calls one tool: no guardrail of these configurations reads tool names.
Next ==
    \/ \E r \in Reqs : CheckInput(r)
    \/ \E r \in Reqs : \E tool \in {NoneV, StrV(T1)} : CheckBehavioral(r, tool)
    \/ \E r \in Reqs : CheckOutput(r, OutputOf(r))
    \/ \E r \in Reqs : RecordToolCall(r, T1)
    \/ \E r \in Reqs : IncrementIteration(r)
    \/ \E r \in Reqs : GetSummary(r)
    \/ \E r \in Reqs : Reset(r)

\* The stages on their own.
NextOutput ==
    \/ \E r \in Reqs : \E o \in Outputs : CheckOutput(r, o)
    \/ \E r \in Reqs : GetSummary(r)
    \/ \E r \in Reqs : Reset(r)

NextInput ==
    \/ \E r \in Reqs : CheckInput(r)
    \/ \E r \in Reqs : GetSummary(r)
    \/ \E r \in Reqs : Reset(r)

NextBehavioral ==
    \/ \E r \in Reqs : \E tool \in Tools : CheckBehavioral(r, tool)
    \/ \E r \in Reqs : \E name \in ToolNames : RecordToolCall(r, name)
    \/ \E r \in Reqs : IncrementIteration(r)
    \/ \E r \in Reqs : GetSummary(r)
    \/ \E r \in Reqs : Reset(r)

\* Requests of a configured and of an unconfigured agent; the agent loops
\* check without recording tool calls.
NextAgents ==
    \/ \E r \in AgentReqs : CheckInput(r)
    \/ \E r \in AgentReqs : CheckBehavioral(r, NoneV)
    \/ \E r \in AgentReqs : CheckOutput(r, OutputOf("r1"))
    \/ \E r \in AgentReqs : GetSummary(r)
    \/ \E r \in AgentReqs : Reset(r)

\* One request through the three stages; a tool name may be empty.
NextDisabled ==
    \/ \E r \in Reqs : CheckInput(r)
    \/ \E r \in Reqs : \E tool \in {NoneV, StrV(<<>>), StrV(T1)} : CheckBehavioral(r, tool)
    \/ \E r \in Reqs : CheckOutput(r, OutputOf(r))
    \/ \E r \in Reqs : GetSummary(r)
    \/ \E r \in Reqs : Reset(r)

\* Rule evaluation on its own: one flagging guardrail, every output.
NextRules ==
    \/ \E r \in Reqs : \E o \in RuleOutputs : CheckOutput(r, o)
    \/ \E r \in Reqs : GetSummary(r)
    \/ \E r \in Reqs : Reset(r)

\* An agent loop that goes through BehavioralGuard and with_behavioral_check.
NextGuard ==
    \/ \E r \in Reqs : IterationEnter(r)
    \/ \E r \in Reqs : \E name \in ToolNames : ToolCallEnter(r, name)
    \/ \E r \in Reqs : WrappedCall(r)
    \/ \E r \in Reqs : GetSummary(r)
    \/ \E r \in Reqs : Reset(r)

\* A guarded client serving requests one at a time; its caller also reads
\* and resets the engine's summary.
NextClient ==
    \/ \E q \in Reqs : \E ci \in BOOLEAN : \E co \in BOOLEAN : MessagesCreate(q, ci, co)
    \/ \E q \in Reqs : ClientInput(q)
    \/ \E q \in Reqs : ClientBehavioral(q)
    \/ \E response \in Responses : ClientApi(response)
    \/ \E q \in Reqs : ClientOutput(q)
    \/ \E r \in {"r1"} : ClientReset(r)
    \/ \E r \in {"r1"} : GetSummary(r)
    \/ \E r \in {"r1"} : Reset(r)

Spec == Init /\ [][Next]_vars
SpecClient == InitClient /\ [][NextClient]_vars
SpecGuard == InitBehavioral /\ [][NextGuard]_vars
SpecRules == InitRules /\ [][NextRules]_vars
SpecAgents == InitAgents /\ [][NextAgents]_vars
SpecDisabled == InitDisabled /\ [][NextDisabled]_vars
SpecOutput == InitOutput /\ [][NextOutput]_vars
SpecInput == InitInput /\ [][NextInput]_vars
SpecBehavioral == InitBehavioral /\ [][NextBehavioral]_vars

(***************************************************************************)
(* Properties                                                              *)
(***************************************************************************)
Checks == {"check_input", "check_behavioral", "check_output"}

StageOf(op) ==
    CASE op = "check_input" -> "input"
      [] op = "check_behavioral" -> "behavioral"
      [] OTHER -> "output"

\* The outcome of evaluate_rule on a guardrail's rule: it triggers, it fails.
Triggers(o) == o.kind = "ok" /\ ~o.val
Fails(o) == o.kind # "ok"

\* What the latest call added to the summary's list of its stage.
Added(stage) ==
    SubSeq(summary[stage], Len(last.before[stage]) + 1, Len(summary[stage]))

\* C1: in each check_* call the enabled guardrails are evaluated in
\* configured order; the first one that triggers with response block makes
\* the call raise GuardrailBlockError with that guardrail's name and the
\* call's stage, and no guardrail after it is evaluated, is in the results or
\* is recorded in the summary by that call.
C1_BlockShortCircuits ==
    last.op \in Checks =>
        LET en == Enabled(last.gs)
            stage == StageOf(last.op)
        IN  /\ Len(last.steps) <= Len(en)
            /\ \A i \in 1..Len(last.steps) : last.steps[i].name = en[i].name
            /\ \A i \in 1..Len(last.steps) :
                  (Triggers(last.steps[i].raw) /\ en[i].response = "block") =>
                      /\ last.status = "block"
                      /\ last.err.guardrail_name = en[i].name
                      /\ last.err.stage = stage
                      /\ Len(last.steps) = i
                      /\ Len(last.results) = i
                      /\ \A j \in 1..i : last.results[j].name = en[j].name
                      /\ Len(Added(stage)) = i
                      /\ \A j \in 1..i : Added(stage)[j].name = en[j].name
                      /\ summary.blocked /\ summary.stage_blocked = stage

C1_Witness ==
    /\ last.op = "check_input"
    /\ last.status = "block"
    /\ Len(Enabled(last.gs)) = 2
    /\ Len(last.steps) = 1
    /\ last.err.guardrail_name = "g1"

\* C2: the object passed as `output` to check_output is deep-equal after the
\* call to what it was before it, whether the call returns or raises.
C2_OutputNotMutated ==
    last.op = "check_output" => Tree(heap, last.argref) = last.arg

C2_Witness ==
    /\ last.op = "check_output"
    /\ last.status = "ok"
    /\ last.argref.t = "dict"
    /\ Tree(heap, last.out) # last.arg
    /\ Tree(heap, last.argref) = last.arg

\* C3: the summary a request reads through get_summary holds only results of
\* that request's own calls, and no blocked flag or stage_blocked value
\* written by another request.
C3_SummaryOwnResults ==
    last.op = "get_summary" =>
        /\ \A st \in VALID_STAGES : \A i \in 1..Len(last.snapshot[st]) :
              last.snapshot[st][i].by = last.by
        /\ last.snapshot.blocked => last.snapshot.blocked_by = last.by

\* C4: with a single enabled behavioral guardrail max_tool_calls(context, N)
\* with response block, check_behavioral returns a non-triggered result when
\* the context's tool_call_count is <= N at evaluation time and raises
\* GuardrailBlockError naming the guardrail when it is > N; the count is the
\* number of tool calls recorded on the context, so the (N+1)-th raises.
ToolCallLimit(n) == Call("max_tool_calls", <<Path(<<"context">>), Lit(IntV(n))>>)

SingleToolCallLimit(n) ==
    /\ last.op = "check_behavioral"
    /\ Len(last.gs) = 1
    /\ last.gs[1].enabled
    /\ last.gs[1].response = "block"
    /\ last.gs[1].rule = ToolCallLimit(n)

C4_MaxToolCalls ==
    \A n \in 0..MaxToolCalls :
        SingleToolCallLimit(n) =>
            /\ last.seen.tool_call_count = last.seen.recorded
            /\ IF last.seen.recorded <= n
               THEN /\ last.status = "ok"
                    /\ Len(last.results) = 1
                    /\ ~last.results[1].triggered
               ELSE /\ last.status = "block"
                    /\ last.err.guardrail_name = last.gs[1].name
                    /\ last.err.stage = "behavioral"

C4_Witness ==
    /\ SingleToolCallLimit(1)
    /\ last.tool.t = "str"
    /\ last.seen.recorded = 2
    /\ last.status = "block"

\* C5: tool_call_count and iteration_count of a context never decrease and
\* are never reset: after k record_tool_call and m increment_iteration
\* calls tool_call_count = k = len(tool_calls), tool_calls holds the recorded
\* names in call order and iteration_count = m.
CountersMatch ==
    \A r \in DOMAIN ctxs :
        /\ ctxs[r].tool_call_count = Len(hist[r].names)
        /\ ctxs[r].tool_call_count = Len(ctxs[r].tool_calls)
        /\ ctxs[r].tool_calls = hist[r].names
        /\ ctxs[r].iteration_count = hist[r].iters

CountersGrow ==
    \A r \in DOMAIN ctxs :
        /\ ctxs'[r].tool_call_count >= ctxs[r].tool_call_count
        /\ ctxs'[r].iteration_count >= ctxs[r].iteration_count

C5_CountersMonotonic == []CountersMatch /\ [][CountersGrow]_vars

C5_Witness ==
    /\ last.op = "reset"
    /\ ctxs["r1"].tool_call_count = 2
    /\ ctxs["r1"].tool_calls = <<T2, T1>>
    /\ ctxs["r1"].iteration_count = 1

\* C6: when evaluating a guardrail's rule fails, with fail_open false the
\* call raises that error; with fail_open true the guardrail yields a result
\* with triggered false and no response whose message records the error, and
\* it neither raises a block nor modifies the output.
C6_FailOpenPolicy ==
    last.op \in Checks =>
        \A i \in 1..Len(last.steps) :
            Fails(last.steps[i].raw) =>
                IF fail_open
                THEN /\ i <= Len(last.results)
                     /\ last.results[i].name = last.steps[i].name
                     /\ ~last.results[i].triggered
                     /\ last.results[i].response = "none"
                     /\ last.results[i].message =
                            (IF last.steps[i].raw.kind = "parse"
                             THEN "Rule parse error: " \o last.steps[i].raw.msg
                             ELSE "Evaluation error")
                     /\ last.steps[i].after = last.steps[i].before
                     /\ ~(last.status = "block" /\ last.err.guardrail_name = last.steps[i].name)
                     /\ last.status \notin {"parse", "eval"}
                ELSE /\ i = Len(last.steps)
                     /\ last.status = last.steps[i].raw.kind
                     /\ Len(last.results) = i - 1

C6_Witness ==
    /\ fail_open
    /\ last.op = "check_output"
    /\ Len(last.steps) = 2
    /\ Fails(last.steps[1].raw)
    /\ Enabled(last.gs)[1].response = "fallback"
    /\ last.status = "ok"

C8_NonBlockNeverRaises ==
    last.op = "check_output" =>
        LET en == Enabled(last.gs)
        IN  \A i \in 1..Len(last.steps) :
                (Triggers(last.steps[i].raw)
                 /\ en[i].response \in {"fallback", "truncate", "flag"}) =>
                    /\ ~(i = Len(last.steps) /\ last.status = "crash")
                    /\ i <= Len(last.results) /\ last.results[i].triggered
                    /\ i < Len(en) => i < Len(last.steps)

\* C9: if in a check_output call every enabled guardrail either does not
\* trigger or has response flag, the returned output is deep-equal to the
\* output passed in.
OnlyFlags ==
    LET en == Enabled(last.gs)
    IN  /\ Len(last.steps) = Len(en)
        /\ \A i \in 1..Len(en) : ~Triggers(last.steps[i].raw) \/ en[i].response = "flag"

C9_UntriggeredOutputUnchanged ==
    (last.op = "check_output" /\ last.status = "ok" /\ OnlyFlags) =>
        Tree(heap, last.out) = last.arg

C9_Witness ==
    /\ last.op = "check_output"
    /\ last.status = "ok"
    /\ OnlyFlags
    /\ last.argref.t = "dict"
    /\ Len(last.steps) = 2
    /\ Triggers(last.steps[1].raw)
    /\ ~Triggers(last.steps[2].raw)

\* C10: when an output guardrail with response truncate triggers and its rule
\* text holds output.<path> addressing a string s inside a mapping output, the
\* output then holds at that path the first truncate_to characters of s
\* followed by the suffix, every other field is unchanged, and the details
\* record original_length = len(s) and truncated_to = truncate_to; when the
\* addressed value is not a string the output is left unchanged.
RECURSIVE TreeGet(_, _, _)
TreeGet(tree, path, i) ==
    IF i > Len(path) THEN tree
    ELSE IF tree.t = "dict" THEN TreeGet(tree.f[path[i]], path, i + 1)
    ELSE Tree(EmptyDict, NoneV)

RECURSIVE TreeSet(_, _, _, _)
TreeSet(tree, path, i, leaf) ==
    IF i > Len(path) THEN leaf
    ELSE [tree EXCEPT !.f[path[i]] = TreeSet(@, path, i + 1, leaf)]

FirstChars(str, n) == SubSeq(str, 1, IF n < Len(str) THEN n ELSE Len(str))

C10_TruncateField ==
    last.op = "check_output" =>
        LET en == Enabled(last.gs)
        IN  \A i \in 1..Len(last.steps) :
                LET g == en[i]
                    path == extract_field_from_rule(g.rule)
                    before == last.steps[i].before
                    s == TreeGet(before, path, 1)
                IN  (/\ Triggers(last.steps[i].raw)
                     /\ g.response = "truncate"
                     /\ path # <<>>
                     /\ before.t = "dict") =>
                        IF s.t = "str"
                        THEN /\ last.steps[i].after =
                                    TreeSet(before, path, 1,
                                            Tree(EmptyDict,
                                                 StrV(FirstChars(s.s, g.truncate_to.n)
                                                      \o g.suffix)))
                             /\ last.results[i].details.original_length =
                                    Tree(EmptyDict, IntV(Len(s.s)))
                             /\ last.results[i].details.truncated_to =
                                    Tree(EmptyDict, g.truncate_to)
                        ELSE last.steps[i].after = before

\* The value a truncate or fallback guardrail addresses in the output it is
\* given: the value at the rule's output.<path> inside a mapping, else the root.
Target(g, before) ==
    LET path == extract_field_from_rule(g.rule)
    IN  IF path # <<>> /\ before.t = "dict" THEN TreeGet(before, path, 1) ELSE before

\* C11: truncation by check_output is a no-op on strings within the limit:
\* for every output guardrail with response truncate, whatever its rule, a
\* string whose length is <= truncate_to is returned unchanged, with no
\* suffix appended.
C11_TruncateWithinLimitNoOp ==
    last.op = "check_output" =>
        LET en == Enabled(last.gs)
        IN  \A i \in 1..Len(last.steps) :
                LET s == Target(en[i], last.steps[i].before)
                IN  (/\ Triggers(last.steps[i].raw)
                     /\ en[i].response = "truncate"
                     /\ s.t = "str"
                     /\ Len(s.s) <= en[i].truncate_to.n) =>
                        last.steps[i].after = last.steps[i].before

\* C12: when an output guardrail with response fallback triggers, its rule
\* text holds output.<path> and the output is a mapping, the returned output
\* holds the fallback_value at that path (missing intermediate mappings are
\* created), every other field is unchanged, and the details record
\* original_value (None when the path did not exist) and fallback_value.
EmptyTree == Tree([x \in {"-"} |-> EmptyDict], DictV("-"))

RECURSIVE TreePut(_, _, _, _)
TreePut(tree, path, i, leaf) ==
    IF i > Len(path) THEN leaf
    ELSE LET base == IF tree.t = "dict" THEN tree ELSE EmptyTree
         IN  [base EXCEPT !.f[path[i]] = TreePut(base.f[path[i]], path, i + 1, leaf)]

NoneIfAbsent(tree) == IF tree.t = "absent" THEN Tree(EmptyDict, NoneV) ELSE tree

C12_FallbackField ==
    last.op = "check_output" =>
        LET en == Enabled(last.gs)
        IN  \A i \in 1..Len(last.steps) :
                LET g == en[i]
                    path == extract_field_from_rule(g.rule)
                    before == last.steps[i].before
                IN  (/\ Triggers(last.steps[i].raw)
                     /\ g.response = "fallback"
                     /\ path # <<>>
                     /\ before.t = "dict") =>
                        /\ ~(i = Len(last.steps) /\ last.status = "crash")
                        /\ last.steps[i].after =
                               TreePut(before, path, 1, Tree(heap, g.fallback_value))
                        /\ last.results[i].details.original_value =
                               NoneIfAbsent(TreeGet(before, path, 1))
                        /\ last.results[i].details.fallback_value =
                               Tree(heap, g.fallback_value)

\* C13: when a triggered truncate or fallback guardrail's rule text holds no
\* output.<path>: a string root gets the remediation (truncate records the
\* original length and leaves a string, fallback leaves the fallback value);
\* a root that is no string (mapping, list, number, None) is left unchanged.
C13_NoPathRootOnly ==
    last.op = "check_output" =>
        LET en == Enabled(last.gs)
        IN  \A i \in 1..Len(last.steps) :
                LET g == en[i]
                    before == last.steps[i].before
                    after == last.steps[i].after
                IN  (/\ Triggers(last.steps[i].raw)
                     /\ g.response \in {"truncate", "fallback"}
                     /\ extract_field_from_rule(g.rule) = <<>>) =>
                        IF before.t # "str" THEN after = before
                        ELSE IF g.response = "fallback"
                        THEN after = Tree(heap, g.fallback_value)
                        ELSE /\ after.t = "str"
                             /\ last.results[i].details.original_length =
                                    Tree(EmptyDict, IntV(Len(before.s)))

\* C14: in check_output each guardrail is evaluated against the output as
\* left by the remediations of the guardrails before it, never against the
\* original: its trigger decision, its recorded original_length and
\* original_value and its remediation are computed from the already-modified
\* value, and the returned output is the result of applying the triggered
\* remediations in configured order.
\* What a max_length or required rule over output.<path> decides on an
\* output, where the addressed value is None, a string or a mapping.
Decided(rule, tree) ==
    IF rule.form # "call" \/ rule.fn \notin {"max_length", "required"} THEN "skip"
    ELSE LET v == NoneIfAbsent(TreeGet(tree, Tail(rule.args[1].p), 1))
         IN  CASE rule.fn = "max_length" /\ v.t = "none" -> "pass"
               [] rule.fn = "max_length" /\ v.t = "str" ->
                     IF Len(v.s) <= rule.args[2].v.n THEN "pass" ELSE "trigger"
               [] rule.fn = "required" /\ v.t = "none" -> "trigger"
               [] rule.fn = "required" /\ v.t = "str" ->
                     IF Len(v.s) = 0 THEN "trigger" ELSE "pass"
               [] rule.fn = "required" /\ v.t = "dict" ->
                     IF \A k \in Keys : v.f[k].t = "absent" THEN "trigger" ELSE "pass"
               [] OTHER -> "skip"

C14_OutputGuardrailsChain ==
    last.op = "check_output" =>
        LET en == Enabled(last.gs)
            n == Len(last.steps)
        IN  /\ n > 0 => last.steps[1].before = last.arg
            /\ \A i \in 2..n : last.steps[i].before = last.steps[i - 1].after
            /\ last.status = "ok" =>
                  Tree(heap, last.out) = (IF n = 0 THEN last.arg ELSE last.steps[n].after)
            /\ \A i \in 1..n :
                  LET g == en[i]
                      before == last.steps[i].before
                      path == extract_field_from_rule(g.rule)
                      crashed == i = n /\ last.status = "crash"
                  IN  /\ Decided(g.rule, before) = "trigger" => Triggers(last.steps[i].raw)
                      /\ Decided(g.rule, before) = "pass" => ~Triggers(last.steps[i].raw)
                      /\ (/\ Triggers(last.steps[i].raw)
                          /\ g.response = "truncate"
                          /\ Target(g, before).t = "str") =>
                             last.results[i].details.original_length =
                                 Tree(EmptyDict, IntV(Len(Target(g, before).s)))
                      /\ (Triggers(last.steps[i].raw) /\ g.response = "fallback") =>
                             last.results[i].details.original_value =
                                 (IF path # <<>> /\ before.t = "dict"
                                  THEN NoneIfAbsent(TreeGet(before, path, 1))
                                  ELSE before)

C14_Witness ==
    /\ last.op = "check_output"
    /\ last.status = "ok"
    /\ Len(last.steps) = 2
    /\ last.steps[1].after # last.steps[1].before
    /\ Decided(Enabled(last.gs)[2].rule, last.arg) = "trigger"
    /\ ~Triggers(last.steps[2].raw)

\* C15: check_input has no side effect on the request: an input guardrail
\* that triggers with response fallback, truncate or flag is recorded as
\* triggered with that response, the call does not raise on account of it
\* and goes on to the next guardrail, and the request is deep-equal to what
\* it was before the call.
C15_InputNoSideEffect ==
    last.op = "check_input" =>
        LET en == Enabled(last.gs)
        IN  /\ Tree(heap, last.argref) = last.arg
            /\ \A i \in 1..Len(last.steps) :
                  (Triggers(last.steps[i].raw)
                   /\ en[i].response \in {"fallback", "truncate", "flag"}) =>
                      /\ i <= Len(last.results)
                      /\ last.results[i].name = en[i].name
                      /\ last.results[i].triggered
                      /\ last.results[i].response = en[i].response
                      /\ \E j \in 1..Len(Added("input")) :
                            /\ Added("input")[j].name = en[i].name
                            /\ Added("input")[j].response = en[i].response
                      /\ i < Len(en) => i < Len(last.steps)
                      /\ i = Len(en) => last.status = "ok"
                      /\ ~(last.status = "block" /\ last.err.guardrail_name = en[i].name)

C15_Witness ==
    /\ last.op = "check_input"
    /\ last.status = "ok"
    /\ Len(last.steps) = 2
    /\ Triggers(last.steps[1].raw) /\ Enabled(last.gs)[1].response = "fallback"
    /\ Triggers(last.steps[2].raw) /\ Enabled(last.gs)[2].response = "truncate"
    /\ last.argref.t = "dict"
    /\ Tree(heap, last.argref) = last.arg

\* C16: get_summary reports per stage exactly the results of the guardrails
\* evaluated by check_* calls since the engine was constructed or last reset,
\* in evaluation order and each under the list of the stage that produced it,
\* the result of a guardrail that blocked included; blocked is true iff one
\* of those results is triggered with response block, stage_blocked is then
\* the stage of the latest such result; after reset the three lists are
\* empty, blocked is false and stage_blocked is None.
LoggedIn(stage) ==
    LET of == SelectSeq(last.log, LAMBDA e : StageOf(e.op) = stage)
    IN  [i \in 1..Len(of) |-> of[i].result]

LoggedBlocks == SelectSeq(last.log, LAMBDA e : e.result.triggered /\ e.result.response = "block")

SummaryIsLog(sm, dicts) ==
    /\ \A stage \in VALID_STAGES :
          /\ Len(sm[stage]) = Len(LoggedIn(stage))
          /\ \A i \in 1..Len(sm[stage]) :
                /\ sm[stage][i] = (IF dicts THEN result_to_dict(LoggedIn(stage)[i])
                                   ELSE LoggedIn(stage)[i])
                /\ sm[stage][i].stage = stage
    /\ sm.blocked <=> LoggedBlocks # <<>>
    /\ sm.stage_blocked = (IF LoggedBlocks = <<>> THEN "none"
                           ELSE StageOf(LoggedBlocks[Len(LoggedBlocks)].op))

C16_SummaryTracksResults ==
    /\ last.op \in Checks \cup {"get_summary", "reset"} => SummaryIsLog(summary, FALSE)
    /\ last.op = "get_summary" => SummaryIsLog(last.snapshot, TRUE)
    /\ last.op = "reset" =>
          /\ summary.input = <<>> /\ summary.behavioral = <<>> /\ summary.output = <<>>
          /\ ~summary.blocked
          /\ summary.stage_blocked = "none"

C16_Witness ==
    /\ last.op = "get_summary"
    /\ Len(last.snapshot.input) = 1
    /\ Len(last.snapshot.output) = 1
    /\ last.snapshot.output[1].triggered /\ last.snapshot.output[1].response = "block"
    /\ last.snapshot.blocked
    /\ last.snapshot.stage_blocked = "output"

\* C17: for every agent and stage, the guardrails a check_* call uses are
\* those configured for that agent when the agent is configured (even when
\* its list for the stage is empty), otherwise those of the agent "default"
\* when one is configured, otherwise none; a configured agent never falls
\* through to "default".  Every guardrail of these configurations flags, so
\* the call's results name the guardrails it used.
Names(seq) == [i \in 1..Len(seq) |-> seq[i].name]

C17_AgentListResolution ==
    last.op \in Checks =>
        LET agent == AgentOf(last.by)
            stage == StageOf(last.op)
        IN  /\ last.status = "ok"
            /\ Names(last.results) =
                  (IF agent \in DOMAIN config THEN Names(config[agent][stage])
                   ELSE IF "default" \in DOMAIN config THEN Names(config["default"][stage])
                   ELSE <<>>)
            /\ Names(Added(stage)) = Names(last.results)

C17_Witness ==
    /\ last.op = "check_input"
    /\ AgentOf(last.by) = "classifier"
    /\ DOMAIN config = {"classifier", "default"}
    /\ config["classifier"]["input"] = <<>>
    /\ config["default"]["input"] # <<>>
    /\ last.results = <<>>

\* C18: a guardrail with enabled false is never evaluated in any stage,
\* whatever its rule text (a malformed one included) and response: it has no
\* result in the returned list or the summary, the call never raises a block
\* or a parse error on its account, and it never modifies the output; a call
\* whose guardrails are all disabled returns with no result and the output
\* it was given.
DisabledNames(gs) == {gs[k].name : k \in {j \in 1..Len(gs) : ~gs[j].enabled}}

C18_DisabledNeverEvaluated ==
    /\ \A stage \in VALID_STAGES : \A i \in 1..Len(summary[stage]) :
          summary[stage][i].name \notin
              DisabledNames(get_guardrails(config, "classifier", stage))
    /\ last.op \in Checks =>
          LET off == DisabledNames(last.gs)
              n == Len(last.steps)
          IN  /\ \A i \in 1..n : last.steps[i].name \notin off
              /\ \A i \in 1..Len(last.results) : last.results[i].name \notin off
              /\ last.status = "block" => last.err.guardrail_name \notin off
              /\ last.status # "ok" => n > 0
              /\ last.op = "check_output" =>
                    /\ n > 0 => last.steps[1].before = last.arg
                    /\ \A i \in 2..n : last.steps[i].before = last.steps[i - 1].after
                    /\ last.status = "ok" =>
                          Tree(heap, last.out) =
                              (IF n = 0 THEN last.arg ELSE last.steps[n].after)
              /\ Enabled(last.gs) = <<>> =>
                    /\ last.status = "ok"
                    /\ last.results = <<>>
                    /\ summary = last.before

C18_Witness ==
    /\ ~fail_open
    /\ last.op = "check_output"
    /\ Len(last.gs) = 2
    /\ ~last.gs[1].enabled
    /\ last.gs[1].rule = NoParse
    /\ last.gs[1].response = "block"
    /\ last.status = "ok"
    /\ Names(last.results) = <<"g2">>
    /\ Tree(heap, last.out) # last.arg

\* C19: evaluate_rule raises RuleParseError when the rule text matches
\* neither the function-call nor the comparison grammar, when the function
\* name is not in the registry (the error names the function), and when a
\* registered predicate is called with the wrong number of arguments; the
\* classification does not depend on fail_open: fail-closed the call raises
\* the RuleParseError, fail-open the non-triggering result's message records
\* a rule parse error with the error's text.
Malformed(rule) ==
    \/ rule.form = "none"
    \/ rule.form = "call" /\ rule.fn \notin Registry
    \/ rule.form = "call" /\ rule.fn \in Registry /\ Len(rule.args) # Arity(rule.fn)

C19_ParseErrorClassification ==
    last.op = "check_input" =>
        LET en == Enabled(last.gs)
        IN  \A i \in 1..Len(last.steps) :
                LET rule == en[i].rule
                    raw == last.steps[i].raw
                IN  Malformed(rule) =>
                        /\ raw.kind = "parse"
                        /\ (rule.form = "call" /\ rule.fn \notin Registry) =>
                              raw.msg = "Unknown rule function: " \o rule.fn
                        /\ IF fail_open
                           THEN /\ i <= Len(last.results)
                                /\ ~last.results[i].triggered
                                /\ last.results[i].response = "none"
                                /\ last.results[i].message = "Rule parse error: " \o raw.msg
                           ELSE /\ last.status = "parse"
                                /\ i = Len(last.steps)
                                /\ Len(last.results) = i - 1

C19_Witness ==
    /\ fail_open
    /\ last.op = "check_input"
    /\ Len(last.steps) = 1
    /\ Enabled(last.gs)[1].rule.fn = "required"
    /\ Len(Enabled(last.gs)[1].rule.args) = 2
    /\ last.results[1].message = "Rule parse error: Error calling required"

\* C20: GuardrailBlockError.to_http_status is 400 for every block raised by
\* check_input or check_behavioral and 500 for every block raised by
\* check_output, and to_response carries that statusCode together with the
\* guardrail name, the stage and the message.
C20_BlockHttpStatus ==
    (last.op \in Checks /\ last.status = "block") =>
        LET en == Enabled(last.gs)
            code == IF last.op \in {"check_input", "check_behavioral"} THEN 400 ELSE 500
        IN  /\ to_http_status(last.err) = code
            /\ last.response.statusCode = code
            /\ last.response.body.guardrail = en[Len(last.steps)].name
            /\ last.response.body.stage = StageOf(last.op)
            /\ last.response.body.error = last.err.message
            /\ last.response.body.error # ""

C20_Witness ==
    /\ last.op = "check_behavioral"
    /\ last.status = "block"
    /\ last.response.statusCode = 400
    /\ last.response.body.stage = "behavioral"
    /\ last.response.body.guardrail = "g1"

\* A rule `output.<path>.<n> == <literal>`: its path ends in a numeric
\* segment.  Parent is the value the segments before it reach.
IndexOf(part) == CASE part = "0" -> 0 [] part = "1" -> 1 [] OTHER -> 0 - 1

IndexRule(rule) ==
    /\ rule.form = "cmp"
    /\ rule.op = "=="
    /\ rule.args[1].k = "path"
    /\ rule.args[2].k = "lit"
    /\ IndexOf(rule.args[1].p[Len(rule.args[1].p)]) >= 0

Parent(rule, tree) ==
    NoneIfAbsent(TreeGet(tree, SubSeq(rule.args[1].p, 2, Len(rule.args[1].p) - 1), 1))

Side(tok, tree) ==
    IF tok.k = "lit" THEN Tree(EmptyDict, tok.v)
    ELSE NoneIfAbsent(TreeGet(tree, Tail(tok.p), 1))

KeyedComparison(rule) ==
    /\ rule.form = "cmp"
    /\ \A j \in 1..2 : rule.args[j].k = "path" =>
           /\ rule.args[j].p[1] = "output"
           /\ \A x \in 2..Len(rule.args[j].p) : rule.args[j].p[x] \in Keys

\* C22: in a comparison rule, >, <, >= and <= are false without raising
\* whenever either side resolves to None; `in` is false and `not in` is true
\* whenever the right side resolves to None; == and != compare the resolved
\* values directly, so a missing path == null is true.
C22_ComparisonsWithNone ==
    last.op = "check_output" =>
        \A i \in 1..Len(last.steps) :
            LET rule == Enabled(last.gs)[i].rule
                l == Side(rule.args[1], last.steps[i].before)
                r == Side(rule.args[2], last.steps[i].before)
                raw == last.steps[i].raw
            IN  KeyedComparison(rule) =>
                    /\ (rule.op \in {">", "<", ">=", "<="}
                        /\ (l.t = "none" \/ r.t = "none")) => raw = Ok(FALSE)
                    /\ (rule.op = "in" /\ r.t = "none") => raw = Ok(FALSE)
                    /\ (rule.op = "not_in" /\ r.t = "none") => raw = Ok(TRUE)
                    /\ rule.op = "==" => raw = Ok(l = r)
                    /\ rule.op = "!=" => raw = Ok(l # r)

\* An ordering comparison with a missing left side, under an engine that
\* re-raises errors: the rule is false and the call returns.
C22_Witness ==
    /\ last.op = "check_output"
    /\ ~fail_open
    /\ last.status = "ok"
    /\ Len(last.steps) = 1
    /\ last.gs[1].rule = OutputRules.gt
    /\ Side(last.gs[1].rule.args[1], last.steps[1].before).t = "none"
    /\ last.steps[1].raw = Ok(FALSE)
    /\ last.results[1].triggered

\* len(str(v)) of a value held as a tree.
RECURSIVE TreeReprLen(_)
TreeStrLen(v) == IF v.t = "str" THEN Len(v.s) ELSE TreeReprLen(v)

TreeReprLen(v) ==
    CASE v.t = "str" -> Len(v.s) + 2
      [] v.t = "int" -> IntStrLen(v.n)
      [] v.t = "none" -> 4
      [] v.t = "list" ->
            IF Len(v.l) = 0 THEN 2
            ELSE 2 + SumLen(v.l, 1) + 2 * Len(v.l) + 2 * (Len(v.l) - 1)
      [] OTHER ->
            LET item(k) == IF v.f[k].t = "absent" THEN 0
                           ELSE Len(KeyStr(k)) + 4 + TreeReprLen(v.f[k]) + 2
                body == item("text") + item("a") + item("b")
            IN  IF body = 0 THEN 2 ELSE body

\* A rule max_length(output.<keys>, n) with an integer n.
LengthRule(rule) ==
    /\ rule.form = "call"
    /\ rule.fn = "max_length"
    /\ Len(rule.args) = 2
    /\ rule.args[1].k = "path"
    /\ rule.args[1].p[1] = "output"
    /\ rule.args[2].k = "lit"
    /\ rule.args[2].v.t = "int"

\* C23 as stated: max_length(v, n) is true when v is None, true for every
\* string v whose length is <= n, and false for every other value v.
C23_MaxLengthStringsOnly ==
    last.op = "check_output" =>
        \A i \in 1..Len(last.steps) :
            LET rule == Enabled(last.gs)[i].rule
                v == Side(rule.args[1], last.steps[i].before)
            IN  LengthRule(rule) =>
                    last.steps[i].raw =
                        Ok(\/ v.t = "none"
                           \/ v.t = "str" /\ Len(v.s) <= rule.args[2].v.n)

\* C23, amended: max_length(v, n) is true when v is None; for every other
\* value it is true exactly when len(str(v)) <= n, which for a string is its
\* own length.
C23_MaxLengthOfStr ==
    last.op = "check_output" =>
        \A i \in 1..Len(last.steps) :
            LET rule == Enabled(last.gs)[i].rule
                v == Side(rule.args[1], last.steps[i].before)
            IN  LengthRule(rule) =>
                    last.steps[i].raw =
                        Ok(v.t = "none" \/ TreeStrLen(v) <= rule.args[2].v.n)

\* max_length(output.text, 3) passes on the integer 12.
C23_Witness ==
    /\ last.op = "check_output"
    /\ Len(last.steps) = 1
    /\ last.gs[1].rule = OutputRules.len
    /\ Side(last.gs[1].rule.args[1], last.steps[1].before) = Tree(EmptyDict, IntV(12))
    /\ last.steps[1].raw = Ok(TRUE)
    /\ ~last.results[1].triggered

\* C24: every accepted configuration with response truncate has a
\* truncate_to that is present and non-negative: constructing a
\* GuardrailConfig with response truncate is rejected otherwise.
C24_TruncateToNonNegative ==
    \A ag \in DOMAIN config : \A st \in VALID_STAGES :
        \A i \in 1..Len(config[ag][st]) :
            config[ag][st][i].response = "truncate" =>
                /\ config[ag][st][i].truncate_to.t = "int"
                /\ config[ag][st][i].truncate_to.n >= 0

\* C29: no check_output call modifies the engine's configuration: after any
\* sequence of check_output calls every GuardrailConfig's fallback_value is
\* equal to what was configured, also where a fallback_value that is a
\* mapping was written into the output and a later guardrail of the same
\* call truncated or overwrote a field inside it.
C29_FallbackValueUnchanged ==
    \A ag \in DOMAIN config : \A st \in VALID_STAGES :
        \A i \in 1..Len(config[ag][st]) :
            Tree(heap, config[ag][st][i].fallback_value) =
                Tree(InitHeap, config[ag][st][i].fallback_value)

\* A step that is a check_* call, and one that is a check_behavioral call
\* with a tool name.
IsCheck == last' # last /\ last'.op \in Checks
NamedCheck == IsCheck /\ last'.op = "check_behavioral" /\ Truthy(last'.tool)

\* C27: check_behavioral(ctx, tool_name) changes the context only by
\* appending tool_name to tool_calls and incrementing tool_call_count by
\* exactly one; it does so before any guardrail is evaluated, so the rules
\* see the new count, and the call stays counted when the check raises a
\* block.  check_behavioral without a tool name, and rule evaluation in
\* every stage, leave the counters and tool_calls unchanged.
C27_BehavioralFrame ==
    [][/\ NamedCheck =>
            LET r == last'.by
                count == ctxs[r].tool_call_count + 1
            IN  /\ ctxs' = [ctxs EXCEPT ![r].tool_call_count = count,
                                        ![r].tool_calls = Append(@, last'.tool.s)]
                /\ \A i \in 1..Len(last'.results) :
                       /\ last'.results[i].details.tool_call_count =
                              Tree(EmptyDict, IntV(count))
                       /\ last'.results[i].details.iteration_count =
                              Tree(EmptyDict, IntV(ctxs[r].iteration_count))
                /\ \A i \in 1..Len(last'.steps) :
                       LET rule == Enabled(last'.gs)[i].rule
                       IN  (rule.fn = "max_tool_calls" /\ rule.args[1].p = <<"context">>) =>
                               last'.steps[i].raw = Ok(count <= rule.args[2].v.n)
       /\ (IsCheck /\ ~NamedCheck) => ctxs' = ctxs]_vars

\* A check with a tool name raised a block, and the call is counted.
C27_Witness ==
    /\ last.op = "check_behavioral"
    /\ last.tool = StrV(T1)
    /\ last.status = "block"
    /\ last.seen.tool_call_count = 2
    /\ ctxs[last.by].tool_call_count = 2
    /\ ctxs[last.by].tool_calls = <<T1, T1>>

\* C28: behavioral violations are permanent for a context: once
\* check_behavioral has raised a block for a max_tool_calls, max_iterations
\* or allowed_tools guardrail, every later check_behavioral on that context
\* also raises a block, whatever further tool calls or iterations are
\* recorded; allowed_tools is true while no tool is recorded and false from
\* the moment any recorded tool is outside the allowed list.
C28_ViolationsPermanent ==
    [][(IsCheck /\ last'.op = "check_behavioral") =>
          LET r == last'.by
          IN  /\ hist[r].blocked => last'.status = "block"
              /\ last'.status = "block" => hist'[r].blocked
              /\ \A i \in 1..Len(last'.steps) :
                    LET rule == Enabled(last'.gs)[i].rule
                    IN  rule.fn = "allowed_tools" =>
                           last'.steps[i].raw =
                              Ok(\A j \in 1..Len(ctxs'[r].tool_calls) :
                                    \E x \in 1..Len(rule.args[2].v.l) :
                                       rule.args[2].v.l[x] = ctxs'[r].tool_calls[j])]_vars

\* A context blocked for a tool outside the allowed list stays blocked after
\* an allowed tool is recorded.
C28_Witness ==
    /\ last.op = "check_behavioral"
    /\ last.status = "block"
    /\ hist[last.by].blocked
    /\ Len(last.steps) = 1
    /\ last.gs[1].rule = BehavioralRules.al
    /\ ctxs[last.by].tool_calls = <<T2, T1>>
    /\ last.tool = StrV(T1)

\* C25: entering BehavioralGuard.iteration() increments iteration_count by
\* exactly one and then runs check_behavioral; entering tool_call(name) runs
\* check_behavioral with that tool name, recording it; in both, and in a
\* function wrapped by with_behavioral_check, the guarded body executes only
\* when the check did not raise.  With max_iterations(context, N) and
\* response block the first N entries succeed and the (N+1)-th raises
\* GuardrailBlockError.
C25_BehavioralGuard ==
    [][(IsCheck /\ last'.seen.entered # "direct") =>
          LET r == last'.by
              entered == last'.seen.entered
          IN  /\ last'.op = "check_behavioral"
              /\ entered \in {"iteration", "wrapper"} =>
                    /\ ctxs' = [ctxs EXCEPT ![r].iteration_count = @ + 1]
                    /\ last'.tool = NoneV
                    /\ \A i \in 1..Len(last'.results) :
                          last'.results[i].details.iteration_count =
                              Tree(EmptyDict, IntV(ctxs[r].iteration_count + 1))
              /\ entered = "tool_call" =>
                    /\ ctxs' = [ctxs EXCEPT ![r].tool_call_count = @ + 1,
                                            ![r].tool_calls = Append(@, last'.tool.s)]
                    /\ \A i \in 1..Len(last'.results) :
                          last'.results[i].details.tool_call_count =
                              Tree(EmptyDict, IntV(ctxs[r].tool_call_count + 1))
              /\ hist'[r].bodies = hist[r].bodies + (IF last'.status = "ok" THEN 1 ELSE 0)
              /\ last'.status = "block" => hist'[r].bodies = hist[r].bodies
              /\ (/\ entered \in {"iteration", "wrapper"}
                  /\ Len(last'.gs) = 1
                  /\ last'.gs[1].rule.fn = "max_iterations"
                  /\ last'.gs[1].rule.args[1].p = <<"context">>
                  /\ last'.gs[1].response = "block") =>
                    IF hist'[r].iters <= last'.gs[1].rule.args[2].v.n
                    THEN last'.status = "ok"
                    ELSE /\ last'.status = "block"
                         /\ last'.err.guardrail_name = last'.gs[1].name]_vars

\* With max_iterations(context, 1) and response block, the second entry of
\* an iteration raises and its body does not run.
C25_Witness ==
    /\ last.op = "check_behavioral"
    /\ last.seen.entered = "iteration"
    /\ last.status = "block"
    /\ Len(last.gs) = 1
    /\ last.gs[1].rule = BehavioralRules.it1
    /\ hist[last.by].iters = 2
    /\ hist[last.by].bodies = 1
    /\ ctxs[last.by].iteration_count = 2

\* C26: messages_create returns the provider response as modified by the
\* output guardrails: when a truncate or fallback remediation changes the
\* extracted output, the value returned to the caller reflects that change.
C26_ReturnsModifiedResponse ==
    (/\ client.pc = "idle"
     /\ client.outcome = "returned"
     /\ client.check_output
     /\ client.output # client.extracted) =>
        LET o == extract_output_data(client.returned)
        IN  Tree([InitHeap EXCEPT !["c0"] = o.c0, !["c1"] = o.c1], o.root) = client.output

\* The steps of the latest messages_create before position i.
Before(i, ev) == \E j \in 1..(i - 1) : client.trace[j].ev = ev

\* C30: in messages_create the provider API is called only after the input
\* guardrails (when check_input is true) and then the behavioral guardrails
\* have both returned without raising; if either raises, the API call is
\* never made; the output guardrails run only after the API call returned.
C30_ClientOrdering ==
    LET trace == client.trace
        n == Len(trace)
    IN  /\ \A i \in 1..n :
              /\ trace[i].ev = "input" => client.check_input /\ i = 1
              /\ trace[i].ev = "behavioral" => i = (IF client.check_input THEN 2 ELSE 1)
              /\ trace[i].ev = "api" =>
                    /\ i > 1
                    /\ trace[i - 1] = [ev |-> "behavioral", status |-> "ok"]
                    /\ client.check_input =>
                          i > 2 /\ trace[i - 2] = [ev |-> "input", status |-> "ok"]
              /\ trace[i].ev = "output" =>
                    i > 1 /\ trace[i - 1].ev = "api" /\ client.check_output
              /\ trace[i].status # "ok" => i = n
        /\ (n > 0 /\ trace[n].status # "ok") =>
              /\ client.pc = "idle"
              /\ client.outcome = "raised"
              /\ trace[n].ev \in {"input", "behavioral"} => client.response = NoneV
        /\ client.pc = "api" => n > 0 /\ trace[n] = [ev |-> "behavioral", status |-> "ok"]
        /\ client.pc = "output" => n > 0 /\ trace[n].ev = "api"

\* The input guardrails returned and the behavioral guardrail raised a
\* block: no API call was made.
C30_Witness ==
    /\ client.pc = "idle"
    /\ client.outcome = "raised"
    /\ client.check_input
    /\ client.trace = <<[ev |-> "input", status |-> "ok"],
                        [ev |-> "behavioral", status |-> "block"]>>
    /\ last.op = "check_behavioral"
    /\ last.status = "block"
    /\ client.response = NoneV

====
